---- MODULE Spec2Model ----
(***************************************************************************)
(* A model of pyoptimum's portfolio module: the Model class (lazy D / Di / *)
(* std caches) and the Portfolio class (models, prices, frontier and the   *)
(* asynchronous calls to the external services).                           *)
(*                                                                         *)
(* Numbers are exact rationals <<num, den>> with den > 0 in lowest terms;  *)
(* vectors are sequences of rationals and matrices sequences of rows.      *)
(* numpy arrays are objects: an array has an identity (its index in heap)  *)
(* and a value (heap[id]); None is the id 0.                               *)
(***************************************************************************)
EXTENDS Integers, Sequences, FiniteSets, TLC

(***************************************************************************)
(* Rational arithmetic                                                     *)
(***************************************************************************)
RECURSIVE Gcd(_, _)
Gcd(a, b) == IF b = 0 THEN a ELSE Gcd(b, a % b)

Abs(a) == IF a < 0 THEN -a ELSE a

Rat(n, d) ==
    LET s == IF d < 0 THEN -1 ELSE 1
        g == Gcd(Abs(n), Abs(d))
    IN  <<(s * n) \div g, (s * d) \div g>>

RInt(n) == <<n, 1>>
RZero == RInt(0)
ROne == RInt(1)
\* the operations cancel common factors before they multiply, which keeps the
\* intermediate products small
RAdd(p, q) ==
    LET g == Gcd(p[2], q[2])
    IN  Rat(p[1] * (q[2] \div g) + q[1] * (p[2] \div g), p[2] * (q[2] \div g))
RNeg(p) == <<-p[1], p[2]>>
RSub(p, q) == RAdd(p, RNeg(q))
RMul(p, q) ==
    LET g1 == Gcd(Abs(p[1]), q[2])
        g2 == Gcd(Abs(q[1]), p[2])
    IN  Rat((p[1] \div g1) * (q[1] \div g2), (p[2] \div g2) * (q[2] \div g1))
RDiv(p, q) == RMul(p, Rat(q[2], q[1]))
RLt(p, q) ==
    LET g == Gcd(p[2], q[2])
    IN  p[1] * (q[2] \div g) < q[1] * (p[2] \div g)
RLe(p, q) == ~RLt(q, p)
RMax(p, q) == IF RLt(p, q) THEN q ELSE p

\* floor of the square root of a natural number, by bisection
RECURSIVE ISqrtIn(_, _, _)
ISqrtIn(x, lo, hi) ==
    IF lo >= hi THEN lo
    ELSE LET mid == (lo + hi + 1) \div 2
         IN  IF mid * mid <= x THEN ISqrtIn(x, mid, hi) ELSE ISqrtIn(x, lo, mid - 1)

ISqrt(x) == ISqrtIn(x, 0, IF x < 46340 THEN x ELSE 46340)

\* np.sqrt on a non-negative rational, rounded down to a multiple of 1/2 as a
\* floating-point square root rounds to a representable binary fraction:
\* exact on the squares of the multiples of 1/2
RSqrt(p) == Rat(ISqrt((4 * p[1]) \div p[2]), 2)

(***************************************************************************)
(* Vectors and matrices                                                    *)
(***************************************************************************)
RECURSIVE Tabulate(_, _)
\* the sequence <<Op(1), ..., Op(n)>>, built element by element
Tabulate(Op(_), n) == IF n = 0 THEN <<>> ELSE Append(Tabulate(Op, n - 1), Op(n))

RECURSIVE RSumTo(_, _)
RSumTo(s, i) == IF i = 0 THEN RZero ELSE RAdd(RSumTo(s, i - 1), s[i])

\* sum of a sequence of rationals
RSum(s) == RSumTo(s, Len(s))

RECURSIVE RMaxTo(_, _)
RMaxTo(s, i) == IF i = 1 THEN s[1] ELSE RMax(RMaxTo(s, i - 1), s[i])

\* np.max of a non-empty vector
VecMax(s) == RMaxTo(s, Len(s))

VecAdd(u, v) == LET e(i) == RAdd(u[i], v[i]) IN Tabulate(e, Len(u))
VecScale(a, u) == LET e(i) == RMul(a, u[i]) IN Tabulate(e, Len(u))
VecMul(u, v) == LET e(i) == RMul(u[i], v[i]) IN Tabulate(e, Len(u))
VecDivBy(u, a) == LET e(i) == RDiv(u[i], a) IN Tabulate(e, Len(u))
Dot(u, v) == RSum(VecMul(u, v))

Rows(M) == Len(M)
Cols(M) == Len(M[1])
Column(M, j) == LET e(i) == M[i][j] IN Tabulate(e, Rows(M))
Transpose(M) == LET e(j) == Column(M, j) IN Tabulate(e, Cols(M))
MatAdd(A, B) == LET e(i) == VecAdd(A[i], B[i]) IN Tabulate(e, Rows(A))
MatScale(a, A) == LET e(i) == VecScale(a, A[i]) IN Tabulate(e, Rows(A))
MatDivBy(A, a) == LET e(i) == VecDivBy(A[i], a) IN Tabulate(e, Rows(A))
MatVec(A, v) == LET e(i) == Dot(A[i], v) IN Tabulate(e, Rows(A))
MatMul(A, B) ==
    LET Bt == Transpose(B)
        e(i) == MatVec(Bt, A[i])
    IN  Tabulate(e, Rows(A))
Diag(M) == LET e(i) == M[i][i] IN Tabulate(e, Rows(M))

Det2(M) == RSub(RMul(M[1][1], M[2][2]), RMul(M[1][2], M[2][1]))

\* np.linalg.inv of an invertible 1x1 or 2x2 matrix
MatInv(M) ==
    IF Rows(M) = 1 THEN <<<<RDiv(ROne, M[1][1])>>>>
    ELSE LET d == Det2(M)
         IN  <<<<RDiv(M[2][2], d), RDiv(RNeg(M[1][2]), d)>>,
               <<RDiv(RNeg(M[2][1]), d), RDiv(M[1][1], d)>>>>

\* (M + M.T) / 2
Symmetrize(M) == MatDivBy(MatAdd(M, Transpose(M)), RInt(2))

\* the value the D getter computes from Di, and the Di getter from D
InvSym(M) == Symmetrize(MatInv(M))

\* np.sqrt(Q + np.diag(F @ D @ F.transpose()))
StdOf(Q, F, D) ==
    LET v == VecAdd(Q, Diag(MatMul(MatMul(F, D), Transpose(F))))
        e(i) == RSqrt(v[i])
    IN  Tabulate(e, Len(v))

(***************************************************************************)
(* Bounds of the model                                                     *)
(***************************************************************************)
\* most normalizing to_dict calls on the Models of the Model specifications
MaxNormalize == 1
\* most operations run after the second Model was constructed
MaxCopySteps == 3
\* how many coroutines of a Portfolio wait for a client at the same time
MaxPending == 1
MaxConstraints == 2
MaxRows == 3

(***************************************************************************)
(* State                                                                   *)
(***************************************************************************)
VARIABLES
    heap,       \* the numpy arrays alive: heap[id] is the value of array id, or Free
    mdl,        \* mdl[h]: the __dict__ of Model h, attribute name -> array id (0 is None)
    ret,        \* what the last Model operation returned
    mop,        \* the last Model operation and how it ended
    origin,     \* origin[h]: how Model h was constructed ("none", "dict" or "copy")
    ncomp,      \* how many derived values (inverse, std) the last operation computed
    nnorm,      \* how many normalizing to_dict calls were made
    nsteps      \* how many operations ran since the second Model was constructed

mvars == <<heap, mdl, ret, mop, origin, ncomp, nnorm>>

VARIABLES
    portfolio,              \* self.portfolio: None or the table, column by column
    models,                 \* self.models: range -> model data
    model_weights,          \* self.model_weights: range -> weight
    model_method,           \* self.model_method
    frontier,               \* self.frontier: None or the rows [x, mu, std]
    frontier_query_params,  \* self.frontier_query_params: empty or the query of the frontier
    frontier_method,        \* self.frontier_method, the provenance tag
    pending,                \* pending[op]: the locals of the coroutine op waiting at its await
    pop,                    \* the last Portfolio operation and how it ended
    napplied                \* how many apply_constraint calls were made

pvars == <<portfolio, models, model_weights, model_method, frontier,
           frontier_query_params, frontier_method, pending, pop, napplied>>

VARIABLES
    client,     \* the attributes of a Client: token, auto_token_renewal, detail
    cop         \* the last Client operation and how it ended

cvars == <<client, cop>>

vars == <<heap, mdl, ret, mop, origin, ncomp, nnorm, nsteps,
          portfolio, models, model_weights, model_method, frontier,
          frontier_query_params, frontier_method, pending, pop, napplied,
          client, cop>>

(***************************************************************************)
(* class Model                                                             *)
(***************************************************************************)
None == 0

\* m1 and m2 are Models of the caller; m3 and m4 are used by the Portfolio
\* ownership specification only
Handles == {"m1", "m2", "m3", "m4"}

\* the attributes of a Model instance, in the order __init__ creates them
AttrOrder == <<"r", "F", "Q", "_std", "_Di", "_D">>
Attrs == {AttrOrder[i] : i \in 1..Len(AttrOrder)}

\* the instance before __init__ ran
NoModel == [a \in Attrs |-> None]

Live(h) == mdl[h]["r"] # None

\* Array ids: an array keeps its id while it is referenced; an array that no
\* Model attribute references any more is collected at the end of the
\* operation and its id may be given to a later array, as in CPython. Four
\* Models hold at most 24 arrays and one operation creates at most 6 more.
ObjIds == 1..30
Free == <<>>

\* a store: the heap, the attributes of one Model and the count of computations
Store(h) == [heap |-> heap, m |-> mdl[h], n |-> 0]

Only(S) == CHOOSE x \in S : TRUE

\* Op applied to the value of st: st is evaluated once, before Op
Then(st, Op(_)) == Only({Op(s) : s \in {st}})

NewId(st) == CHOOSE i \in ObjIds : st.heap[i] = Free /\ \A j \in 1..(i - 1) : st.heap[j] # Free

\* self.<attr> = <a new array of value v>
Bind(st, attr, v) ==
    LET id == NewId(st)
    IN  [st EXCEPT !.heap = [@ EXCEPT ![id] = v], !.m = [@ EXCEPT ![attr] = id]]

\* the D setter with a mutation: the cached Di is left in place
SetD_KeepDi(st, v) ==
    LET s1 == Bind(st, "_D", v)
    IN  [s1 EXCEPT !.m = [@ EXCEPT !["_std"] = None]]

\* Model.D.setter
SetD(st, v) ==
    LET s1 == Bind(st, "_D", v)
    IN  [s1 EXCEPT !.m = [@ EXCEPT !["_Di"] = None, !["_std"] = None]]

\* Model.Di.setter
SetDi(st, v) ==
    LET s1 == Bind(st, "_Di", v)
    IN  [s1 EXCEPT !.m = [@ EXCEPT !["_D"] = None, !["_std"] = None]]

\* the Di getter with a mutation: the inverse is computed also when it is cached
GetDi_NoCache(st) ==
    IF st.m["_D"] # None
    THEN LET s1 == Bind(st, "_Di", InvSym(st.heap[st.m["_D"]]))
         IN  [s1 EXCEPT !.n = @ + 1]
    ELSE st

\* Model.Di (getter): self._D is set whenever self._Di is None
GetDi(st) ==
    IF st.m["_Di"] = None
    THEN LET s1 == Bind(st, "_Di", InvSym(st.heap[st.m["_D"]]))
         IN  [s1 EXCEPT !.n = @ + 1]
    ELSE st

\* Model.D (getter): self._Di is set whenever self._D is None
GetD(st) ==
    IF st.m["_D"] = None
    THEN LET s1 == Bind(st, "_D", InvSym(st.heap[st.m["_Di"]]))
         IN  [s1 EXCEPT !.n = @ + 1]
    ELSE st

\* Model.std (getter): reads self.Q, self.F and the property self.D
GetStd(st) ==
    IF st.m["_std"] = None
    THEN Then(GetD(st), LAMBDA s1 :
            [Bind(s1, "_std", StdOf(s1.heap[s1.m["Q"]], s1.heap[s1.m["F"]],
                                    s1.heap[s1.m["_D"]]))
                EXCEPT !.n = @ + 1])
    ELSE st

\* the from-dict branch of __init__ with a mutation: the presence of both
\* D and Di is not rejected
FromDictOk_NoCheck(keys) == keys # {}

\* the from-dict branch of __init__ completes: not both D and Di, and one of them
FromDictOk(keys) == keys # {} /\ keys # {"D", "Di"}

\* Model.__init__, from dict: the store after the constructor ran to its end
FromDict(st, base, keys, mv) ==
    Then(Bind(Bind(Bind(st, "r", base.r), "F", base.F), "Q", base.Q), LAMBDA s1 :
        IF "Di" \in keys THEN SetDi(s1, mv) ELSE SetD(s1, mv))

\* deepcopy of one attribute with a mutation: the array itself is stored
CopyAttr_Shallow(st, src, attr) == [st EXCEPT !.m = [@ EXCEPT ![attr] = src[attr]]]

\* setattr(self, k, deepcopy(v)) for one attribute of the source
CopyAttr(st, src, attr) ==
    IF src[attr] = None THEN [st EXCEPT !.m = [@ EXCEPT ![attr] = None]]
    ELSE Bind(st, attr, st.heap[src[attr]])

RECURSIVE CopyAttrs(_, _, _)
\* Model.__init__, copy constructor: the first i attributes of data.__dict__ copied
CopyAttrs(st, src, i) ==
    IF i = 0 THEN st
    ELSE Then(CopyAttrs(st, src, i - 1), LAMBDA s : CopyAttr(s, src, AttrOrder[i]))

\* the attribute behind a public name
SlotOf(f) ==
    CASE f = "D" -> "_D" [] f = "Di" -> "_Di" [] f = "std" -> "_std" [] OTHER -> f

\* getattr(self, f)
GetAttr(st, f) ==
    CASE f = "D" -> GetD(st) [] f = "Di" -> GetDi(st) [] f = "std" -> GetStd(st)
      [] OTHER -> st

RECURSIVE GetAttrs(_, _, _)
\* {f: getattr(self, f) for f in fields}: the store after the first i reads
GetAttrs(st, fields, i) ==
    IF i = 0 THEN st
    ELSE Then(GetAttrs(st, fields, i - 1), LAMBDA s : GetAttr(s, fields[i]))

Range(s) == {s[i] : i \in 1..Len(s)}

RSquare(p) == RMul(p, p)

\* alpha = np.max(self.std) ** 2 if normalize else 1.0, read after self.std
Alpha(st, normalize) ==
    IF normalize THEN RSquare(VecMax(st.heap[st.m["_std"]])) ELSE ROne

\* d[f] /= alpha: numpy divides the array object itself
DivideInPlace(st, f, alpha) ==
    [st EXCEPT !.heap = [@ EXCEPT ![st.m[SlotOf(f)]] =
        IF f = "Q" THEN VecDivBy(@, alpha) ELSE MatDivBy(@, alpha)]]

\* for f in ['Q', 'D']: if f in fields: d[f] /= alpha
Normalized(st, fields, alpha) ==
    CASE {"Q", "D"} \subseteq Range(fields) ->
            DivideInPlace(DivideInPlace(st, "Q", alpha), "D", alpha)
      [] "Q" \in Range(fields) /\ "D" \notin Range(fields) -> DivideInPlace(st, "Q", alpha)
      [] "D" \in Range(fields) /\ "Q" \notin Range(fields) -> DivideInPlace(st, "D", alpha)
      [] OTHER -> st

\* one entry of the dictionary to_dict returns, [id, val]: id is the array
\* handed out, or None for a list (as_list) and for a quotient array that the
\* Model does not hold
Held(st, f, as_list) ==
    [id |-> IF as_list THEN None ELSE st.m[SlotOf(f)], val |-> st.heap[st.m[SlotOf(f)]]]

Quotient(st, f, alpha) ==
    [id  |-> None,
     val |-> IF f = "Q" THEN VecDivBy(st.heap[st.m["Q"]], alpha)
             ELSE MatDivBy(st.heap[st.m["_D"]], alpha)]

\* Model.to_dict after alpha was computed in store s0: the store after the call
\* and the dictionary returned
ToDictWith(s0, alpha, fields, as_list, normalize) ==
    IF fields # <<>>
    THEN Then(GetAttrs(s0, fields, Len(fields)), LAMBDA s1 :
         Then(IF normalize THEN Normalized(s1, fields, alpha) ELSE s1, LAMBDA s9 :
            [st |-> s9, d |-> [f \in Range(fields) |-> Held(s9, f, as_list)]]))
    ELSE Then(GetStd(GetD(s0)), LAMBDA s9 :
            [st |-> s9,
             d  |-> [f \in {"r", "D", "F", "Q", "std"} |->
                        IF f \in {"D", "Q"} THEN Quotient(s9, f, alpha)
                        ELSE Held(s9, f, as_list)]])

\* Model.to_dict
ToDict(st, fields, as_list, normalize) ==
    Then(IF normalize THEN GetStd(st) ELSE st, LAMBDA s0 :
        ToDictWith(s0, Alpha(s0, normalize), fields, as_list, normalize))

(***************************************************************************)
(* The inputs of the Model specifications                                  *)
(***************************************************************************)
IntVec(s) == LET e(i) == RInt(s[i]) IN Tabulate(e, Len(s))
IntMat(M) == LET e(i) == IntVec(M[i]) IN Tabulate(e, Len(M))

\* r, F and Q of a model dict: two assets, two factors
BaseVals ==
    { [r |-> IntVec(<<1, 2>>), F |-> IntMat(<<<<1, 0>>, <<0, 1>>>>), Q |-> IntVec(<<1, 1>>)],
      [r |-> IntVec(<<2, 1>>), F |-> IntMat(<<<<1, 0>>, <<1, 1>>>>), Q |-> IntVec(<<1, 2>>)] }

\* values of D or Di: invertible, the last one not symmetric
MatVals ==
    { IntMat(<<<<2, 1>>, <<1, 1>>>>),
      IntMat(<<<<1, 1>>, <<0, 1>>>>) }

\* the fields argument of to_dict; <<>> is None
FieldChoices ==
    { <<>>, <<"r", "Q", "D", "F">>, <<"Q">>, <<"Di", "std">> }

NoDict == <<>>

(***************************************************************************)
(* The operations on a Model                                               *)
(***************************************************************************)
\* the record of an operation: hit tells, for a read, that the value was cached
\* before it; for an assignment, that the other matrix and std were cached
\* before it; for to_dict, that it normalized
MOp(name, h, outcome, hit, arg) ==
    [name |-> name, h |-> h, outcome |-> outcome, hit |-> hit, arg |-> arg]

\* the arrays that a Model attribute references
Referenced(m) == {m[h][a] : h \in Handles, a \in Attrs}

\* the store st becomes the state of Model h; unreferenced arrays are collected;
\* the operation is counted when both Models exist
Commit(h, store) ==
    \E st \in {store} :
        /\ mdl' = [mdl EXCEPT ![h] = st.m]
        /\ heap' = [i \in ObjIds |-> IF i \in Referenced(mdl') THEN st.heap[i] ELSE Free]
        /\ ncomp' = st.n
        /\ Live("m2") => nsteps < MaxCopySteps
        /\ nsteps' = IF Live("m2") THEN nsteps + 1 ELSE nsteps

\* h = Model(data) with data a dict holding r, F, Q and the keys `keys`
M_New(h, base, keys, mv) ==
    /\ ~Live(h)
    /\ IF FromDictOk(keys)
       THEN /\ Commit(h, FromDict(Store(h), base, keys, mv))
            /\ origin' = [origin EXCEPT ![h] = "dict"]
            /\ mop' = MOp("init", h, "ok", FALSE, keys)
       ELSE /\ mop' = MOp("init", h, IF keys = {} THEN "KeyError" ELSE "AssertionError",
                          FALSE, keys)
            /\ ncomp' = 0
            /\ UNCHANGED <<heap, mdl, origin, nsteps>>
    /\ ret' = [id |-> None, d |-> NoDict]
    /\ UNCHANGED <<nnorm, pvars, cvars>>

\* dst = Model(src)
M_CopyOf(src, dst) ==
    /\ Live(src) /\ ~Live(dst)
    /\ Commit(dst, CopyAttrs(Store(dst), mdl[src], Len(AttrOrder)))
    /\ origin' = [origin EXCEPT ![dst] = "copy"]
    /\ mop' = MOp("copy", dst, "ok", FALSE, {src})
    /\ ret' = [id |-> None, d |-> NoDict]
    /\ UNCHANGED <<nnorm, pvars, cvars>>

\* h.D, h.Di or h.std is read
M_Read(h, f) ==
    /\ Live(h)
    /\ \E st \in {GetAttr(Store(h), f)} :
           /\ Commit(h, st)
           /\ ret' = [id |-> st.m[SlotOf(f)], d |-> NoDict]
    /\ mop' = MOp("get", h, "ok", mdl[h][SlotOf(f)] # None, {f})
    /\ UNCHANGED <<origin, nnorm, pvars, cvars>>

\* h.D = <a new array of value v>
M_AssignD(h, v) ==
    /\ Live(h)
    /\ Commit(h, SetD(Store(h), v))
    /\ mop' = MOp("set", h, "ok", mdl[h]["_Di"] # None /\ mdl[h]["_std"] # None, {"D"})
    /\ ret' = [id |-> None, d |-> NoDict]
    /\ UNCHANGED <<origin, nnorm, pvars, cvars>>

\* h.Di = <a new array of value v>
M_AssignDi(h, v) ==
    /\ Live(h)
    /\ Commit(h, SetDi(Store(h), v))
    /\ mop' = MOp("set", h, "ok", mdl[h]["_D"] # None /\ mdl[h]["_std"] # None, {"Di"})
    /\ ret' = [id |-> None, d |-> NoDict]
    /\ UNCHANGED <<origin, nnorm, pvars, cvars>>

\* h.to_dict(fields, as_list, normalize)
M_ToDict(h, fields, as_list, normalize) ==
    /\ Live(h)
    /\ normalize => nnorm < MaxNormalize
    /\ \E res \in {ToDict(Store(h), fields, as_list, normalize)} :
           /\ Commit(h, res.st)
           /\ ret' = [id |-> None, d |-> res.d]
    /\ mop' = MOp("to_dict", h, "ok", normalize, Range(fields))
    /\ nnorm' = IF normalize THEN nnorm + 1 ELSE nnorm
    /\ UNCHANGED <<origin, pvars, cvars>>

InitModel ==
    /\ heap = [i \in ObjIds |-> Free]
    /\ mdl = [h \in Handles |-> NoModel]
    /\ ret = [id |-> None, d |-> NoDict]
    /\ mop = MOp("none", "m1", "ok", FALSE, {})
    /\ origin = [h \in Handles |-> "none"]
    /\ ncomp = 0
    /\ nnorm = 0
    /\ nsteps = 0

\* one Model, built from a dict
NextModel ==
    \/ \E base \in BaseVals, keys \in SUBSET {"D", "Di"}, mv \in MatVals :
          M_New("m1", base, keys, mv)
    \/ \E f \in {"D", "Di", "std"} : M_Read("m1", f)
    \/ \E v \in MatVals : M_AssignD("m1", v)
    \/ \E v \in MatVals : M_AssignDi("m1", v)
    \/ \E fields \in FieldChoices, as_list \in BOOLEAN, normalize \in BOOLEAN :
          M_ToDict("m1", fields, as_list, normalize)



\* two Models: m1 built from a dict, m2 copy-constructed from m1
NextCopy ==
    \/ \E keys \in {{"D"}, {"Di"}} :
          M_New("m1", [r |-> IntVec(<<2, 1>>), F |-> IntMat(<<<<1, 0>>, <<1, 1>>>>),
                       Q |-> IntVec(<<1, 2>>)],
                keys, IntMat(<<<<2, 1>>, <<1, 1>>>>))
    \/ M_CopyOf("m1", "m2")
    \/ \E h \in Handles, f \in {"D", "Di", "std"} : M_Read(h, f)
    \/ \E h \in Handles : Live("m2") /\ M_AssignD(h, IntMat(<<<<1, 1>>, <<0, 1>>>>))
    \/ \E h \in Handles : Live("m2") /\ M_AssignDi(h, IntMat(<<<<1, 1>>, <<0, 1>>>>))
    \/ \E h \in Handles : Live("m2") /\ M_ToDict(h, <<"r", "Q", "D", "F">>, FALSE, TRUE)


(***************************************************************************)
(* Properties of the Model class                                           *)
(***************************************************************************)
\* the argument recorded by a read or an assignment
ArgOf(op) == CHOOSE f \in op.arg : TRUE

\* In every reachable state both D and Di are never unset at once in a
\* constructed Model, so a getter never recurses into the other getter.
ModelTypeOK ==
    \A h \in Handles : Live(h) => mdl[h]["_D"] # None \/ mdl[h]["_Di"] # None

\* C1: assigning D leaves _D set and _Di and _std unset, and assigning Di
\* leaves _Di set and _D and _std unset, whatever was cached before.
C1_SettersClearCaches ==
    mop.name = "set" =>
        LET m == mdl[mop.h]
        IN  /\ mop.arg = {"D"} => m["_D"] # None /\ m["_Di"] = None /\ m["_std"] = None
            /\ mop.arg = {"Di"} => m["_Di"] # None /\ m["_D"] = None /\ m["_std"] = None

\* D was assigned while Di and std were cached
C1_Witness == mop.name = "set" /\ mop.arg = {"D"} /\ mop.hit

\* C2: a read of D, Di or std returns the array now held in the slot; when the
\* slot was set before the read it returns that very array, computes nothing
\* and changes no array; when it was unset, it computes the value; and a set
\* slot keeps its array over every step that is no assignment of D or Di.
C2_ReadStep ==
    mop'.name = "get" =>
        LET h == mop'.h
            a == SlotOf(ArgOf(mop'))
        IN  /\ ret'.id # None /\ ret'.id = mdl'[h][a]
            /\ mdl[h][a] # None =>
                 /\ ret'.id = mdl[h][a] /\ ncomp' = 0
                 /\ heap' = heap /\ mdl' = mdl /\ mop'.hit
            /\ mdl[h][a] = None => ncomp' >= 1 /\ ~mop'.hit

C2_SlotStable ==
    \A h \in Handles : \A a \in {"_D", "_Di", "_std"} :
        (mdl[h][a] # None /\ ~(mop'.name = "set" /\ mop'.h = h))
            => mdl'[h][a] = mdl[h][a]

C2_Memoized == [][C2_ReadStep /\ C2_SlotStable]_vars

\* Di was read a second time, after the read that computed it
C2_Witness ==
    /\ mop.name = "get" /\ mop.arg = {"Di"} /\ mop.hit
    /\ ret.id = mdl["m1"]["_Di"] /\ mdl["m1"]["_D"] # None /\ ncomp = 0

\* C3: Model(dict) with both D and Di raises the assertion error and builds
\* nothing; with only D it sets _D and leaves _Di and _std unset; with only Di
\* it sets _Di and leaves _D and _std unset.
C3_ExactlyOneOfDAndDi ==
    mop.name = "init" =>
        LET m == mdl[mop.h]
        IN  /\ mop.arg = {"D", "Di"} => mop.outcome = "AssertionError" /\ ~Live(mop.h)
            /\ mop.arg = {} => mop.outcome # "ok" /\ ~Live(mop.h)
            /\ mop.arg = {"D"} =>
                 /\ mop.outcome = "ok"
                 /\ m["_D"] # None /\ m["_Di"] = None /\ m["_std"] = None
            /\ mop.arg = {"Di"} =>
                 /\ mop.outcome = "ok"
                 /\ m["_Di"] # None /\ m["_D"] = None /\ m["_std"] = None

\* a dict with both D and Di was rejected
C3_Witness == mop.name = "init" /\ mop.arg = {"D", "Di"} /\ mop.outcome = "AssertionError"

\* C4: dst = Model(src) gives dst, for every attribute that src has set, a new
\* array (one that no Model referenced before, different from those of the
\* other attributes) with the value of the source's, and None for every
\* attribute that is None in src; and no operation on one Model changes an
\* attribute of the other Model or the value of an array the other holds.
C4_CopyStep ==
    mop'.name = "copy" =>
        LET dst == mop'.h
            src == ArgOf(mop')
        IN  \A a \in Attrs :
              IF mdl[src][a] = None THEN mdl'[dst][a] = None
              ELSE /\ mdl'[dst][a] # None
                   /\ mdl'[dst][a] \notin Referenced(mdl)
                   /\ \A b \in Attrs \ {a} : mdl'[dst][b] # mdl'[dst][a]
                   /\ heap'[mdl'[dst][a]] = heap[mdl[src][a]]

C4_Isolation ==
    \A h \in Handles :
        (Live(h) /\ mop'.h # h) =>
            \A a \in Attrs :
                /\ mdl'[h][a] = mdl[h][a]
                /\ mdl[h][a] # None => heap'[mdl[h][a]] = heap[mdl[h][a]]

C4_CopyIsIndependent == [][C4_CopyStep /\ C4_Isolation]_vars

\* m2 is a copy of m1 taken with all three caches set, and a normalizing
\* to_dict has since divided the Q of one of them in place
C4_Witness ==
    /\ origin["m2"] = "copy" /\ mop.name = "to_dict" /\ mop.hit
    /\ \A a \in Attrs : mdl["m2"][a] # None
    /\ heap[mdl["m1"]["Q"]] # heap[mdl["m2"]["Q"]]

(***************************************************************************)
(* class Portfolio                                                         *)
(*                                                                         *)
(* A dict is a function on its keys.  An attribute that may be None is a   *)
(* set: {} is None and {v} is the value v, so that None, an empty table    *)
(* and an empty dict stay three different things.  The numbers a method    *)
(* computes from a Model are kept as terms that name the Model they were   *)
(* computed from.                                                          *)
(***************************************************************************)
Nothing == {}
Some(v) == {v}
The(o) == CHOOSE v \in o : TRUE

EmptyDict == [k \in {} |-> 0]
Keys(d) == DOMAIN d

Ranges == {"1mo", "6mo"}

\* the tickers of the csv file, the shares it lists and the prices the model
\* client answers with
Tickers == {"A", "B"}
CsvShares == [t \in Tickers |-> IF t = "A" THEN RInt(100) ELSE RZero]
Closes == [t \in Tickers |-> IF t = "A" THEN RInt(2) ELSE RInt(5)]

\* -np.inf and np.inf, and the order of the floats with them
NegInf == <<-1, 0>>
PosInf == <<1, 0>>
XLt(p, q) ==
    IF p = q \/ p = PosInf \/ q = NegInf THEN FALSE
    ELSE IF p = NegInf \/ q = PosInf THEN TRUE
    ELSE RLt(p, q)
XLe(p, q) == ~XLt(q, p)
\* np.maximum and np.minimum
XMax_Second(p, q) == q
XMax(p, q) == IF XLt(p, q) THEN q ELSE p
XMin(p, q) == IF XLt(q, p) THEN q ELSE p
Methods == {"linear", "linear-fractional"}
Cashflows == {0}
AsyncOps ==
    {"retrieve_prices", "retrieve_models", "retrieve_frontier", "retrieve_recommendation"}
BaseColumns == {"shares", "lower", "upper"}
PriceColumns == {"close ($)", "value ($)", "value (%)"}

\* the models handed to set_models or answered by the model client
ModelDicts ==
    {EmptyDict, [rg \in {"1mo"} |-> 1], [rg \in Ranges |-> IF rg = "1mo" THEN 1 ELSE 2]}

\* the weights handed to set_models_weights and set_models
WeightDicts ==
    {EmptyDict, [rg \in {"1mo"} |-> 1], [rg \in {"1mo"} |-> -1], [rg \in Ranges |-> 1]}

\* the model_weights handed to retrieve_models: None, or a negative weight
ArgWeightDicts == {EmptyDict, [rg \in {"1mo"} |-> -1]}

\* self, as one record
Self ==
    [portfolio |-> portfolio, models |-> models, model_weights |-> model_weights,
     model_method |-> model_method, frontier |-> frontier,
     frontier_query_params |-> frontier_query_params,
     frontier_method |-> frontier_method]

\* the attributes of self after a method ran
Save(s) ==
    /\ portfolio' = s.portfolio
    /\ models' = s.models
    /\ model_weights' = s.model_weights
    /\ model_method' = s.model_method
    /\ frontier' = s.frontier
    /\ frontier_query_params' = s.frontier_query_params
    /\ frontier_method' = s.frontier_method

\* what a method leaves: self and the exception raised ("none" for a return)
Done(s) == [self |-> s, exc |-> "none"]
Raise(s, e) == [self |-> s, exc |-> e]

\* Portfolio.__init__
NewPortfolio ==
    [portfolio |-> Nothing, models |-> EmptyDict, model_weights |-> EmptyDict,
     model_method |-> "linear", frontier |-> Nothing,
     frontier_query_params |-> Nothing, frontier_method |-> "none"]

invalidate_model(s) == [s EXCEPT !.models = EmptyDict, !.model_weights = EmptyDict]

invalidate_frontier_KeepParams(s) == [s EXCEPT !.frontier = Nothing, !.frontier_method = "none"]

invalidate_frontier(s) ==
    [s EXCEPT !.frontier = Nothing, !.frontier_query_params = Nothing,
              !.frontier_method = "none"]

has_prices(s) == s.portfolio # Nothing /\ "close ($)" \in The(s.portfolio).columns

has_frontier(s) == s.frontier # Nothing

has_models(s) == Keys(s.models) # {}

\* the Model get_model builds: the weight-sum over the items of model_weights
Combined(s) ==
    [method |-> IF s.model_method = "linear" \/ Cardinality(Keys(s.models)) = 1
                THEN "linear" ELSE "linear-fractional",
     parts  |-> [rg \in Keys(s.model_weights) |->
                    [weight |-> s.model_weights[rg], data |-> s.models[rg]]]]

\* get_model: [exc, model]; self.models[rg] raises KeyError for a weight whose
\* range has no model
get_model(s) ==
    IF ~has_models(s) THEN [exc |-> "AssertionError", model |-> Nothing]
    ELSE IF ~(Keys(s.model_weights) \subseteq Keys(s.models))
         THEN [exc |-> "KeyError", model |-> Nothing]
         ELSE [exc |-> "none", model |-> Some(Combined(s))]

\* return_and_variance(x, model), as terms
return_and_variance(x, model) ==
    [mu  |-> [part |-> "mu", given |-> 0, rv |-> Some(<<x, model>>)],
     std |-> [part |-> "std", given |-> 0, rv |-> Some(<<x, model>>)]]

\* a number handed in by the solver
Given(v) == [part |-> "mu", given |-> v, rv |-> Nothing]

RECURSIVE SumOver(_, _)
\* sum(model_weights.values())
SumOver(w, K) ==
    IF K = {} THEN 0
    ELSE LET k == CHOOSE k \in K : TRUE IN w[k] + SumOver(w, K \ {k})

\* the weights stored as they were handed in
NormalizedWeights_Unscaled(w) == [rg \in Keys(w) |-> RInt(w[rg])]

\* set_models_weights, "normalize weights"
NormalizedWeights(w) ==
    LET total == SumOver(w, Keys(w))
    IN  IF total > 0 THEN [rg \in Keys(w) |-> Rat(w[rg], total)]
        ELSE [rg \in Keys(w) |-> Rat(1, Cardinality(Keys(w)))]

\* set_models_weights, "update frontier", with the tag left as it was
UpdateFrontier_KeepTag(s) ==
    IF has_frontier(s)
    THEN LET model == The(get_model(s).model)
             rows == The(s.frontier)
         IN  [s EXCEPT !.frontier = Some([i \in 1..Len(rows) |->
                            [x |-> rows[i].x,
                             mu |-> return_and_variance(rows[i].x, model).mu,
                             std |-> return_and_variance(rows[i].x, model).std]])]
    ELSE s

\* set_models_weights, "update frontier", with mu left as it was
UpdateFrontier_KeepMu(s) ==
    IF has_frontier(s)
    THEN LET model == The(get_model(s).model)
             rows == The(s.frontier)
         IN  [s EXCEPT !.frontier = Some([i \in 1..Len(rows) |->
                            [x |-> rows[i].x,
                             mu |-> rows[i].mu,
                             std |-> return_and_variance(rows[i].x, model).std]]),
                       !.frontier_method = "approximate"]
    ELSE s

\* set_models_weights, "update frontier"
UpdateFrontier(s) ==
    IF has_frontier(s)
    THEN LET model == The(get_model(s).model)
             rows == The(s.frontier)
         IN  [s EXCEPT !.frontier = Some([i \in 1..Len(rows) |->
                            [x |-> rows[i].x,
                             mu |-> return_and_variance(rows[i].x, model).mu,
                             std |-> return_and_variance(rows[i].x, model).std]]),
                       !.frontier_method = "approximate"]
    ELSE s

\* set_models_weights without the check of the weights' signs
set_models_weights_NoSignCheck(s, w) ==
    IF ~has_models(s) THEN Raise(s, "AssertionError")
    ELSE IF Keys(s.models) # Keys(w) THEN Raise(s, "AssertionError")
    ELSE Done(UpdateFrontier([s EXCEPT !.model_weights = NormalizedWeights(w)]))

set_models_weights(s, w) ==
    IF ~has_models(s) THEN Raise(s, "AssertionError")
    ELSE IF Keys(s.models) # Keys(w) THEN Raise(s, "AssertionError")
    ELSE IF \E rg \in Keys(w) : w[rg] < 0 THEN Raise(s, "AssertionError")
    ELSE Done(UpdateFrontier([s EXCEPT !.model_weights = NormalizedWeights(w)]))

\* set_models that leaves the frontier in place
set_models_KeepFrontier(s, ms, w) ==
    LET s1 == [s EXCEPT !.models = ms]
        w1 == IF Keys(w) = {} THEN [rg \in Keys(ms) |-> 1] ELSE w
    IN  set_models_weights(s1, w1)

\* set_models; an empty model_weights stands for None too (both are falsy)
set_models(s, ms, w) ==
    LET s1 == [s EXCEPT !.models = ms]
        w1 == IF Keys(w) = {} THEN [rg \in Keys(ms) |-> 1] ELSE w
        r  == set_models_weights(s1, w1)
    IN  IF r.exc # "none" THEN r ELSE Done(invalidate_frontier(r.self))

set_model_method(s, method) == [s EXCEPT !.model_method = method]

\* a csv file: its columns, the tickers in the order of its lines, and the
\* shares it lists when it has that column
DefaultCsv ==
    [columns |-> {"ticker", "shares"}, tickers |-> <<"A", "B">>, shares |-> CsvShares]
CsvFiles ==
    {DefaultCsv,
     [columns |-> {"ticker", "name"}, tickers |-> <<"B", "A">>, shares |-> EmptyDict],
     [columns |-> {"ticker", "shares", "name"}, tickers |-> <<"B", "A">>,
      shares |-> [t \in Tickers |-> RInt(3)]],
     [columns |-> {"shares"}, tickers |-> <<>>, shares |-> CsvShares]}

\* import_csv that keeps every column of the file
import_csv_file_AllColumns(s, file) ==
    IF "ticker" \notin file.columns THEN Raise(s, "AssertionError")
    ELSE LET index == Range(file.tickers)
         IN  Done([invalidate_model(invalidate_frontier(s))
                  EXCEPT !.portfolio =
                      Some([columns |-> (file.columns \ {"ticker"}) \cup BaseColumns,
                            index |-> file.tickers,
                            shares |-> IF "shares" \in file.columns THEN file.shares
                                       ELSE [t \in index |-> RZero],
                            lower |-> [t \in index |-> NegInf],
                            upper |-> [t \in index |-> PosInf],
                            close |-> EmptyDict,
                            value |-> EmptyDict,
                            percent |-> EmptyDict])])

\* import_csv of the file: the table is portfolio[['shares', 'lower', 'upper']]
\* with the tickers as index
import_csv_file(s, file) ==
    IF "ticker" \notin file.columns THEN Raise(s, "AssertionError")
    ELSE LET index == Range(file.tickers)
         IN  Done([invalidate_model(invalidate_frontier(s))
                  EXCEPT !.portfolio =
                      Some([columns |-> BaseColumns,
                            index |-> file.tickers,
                            shares |-> IF "shares" \in file.columns THEN file.shares
                                       ELSE [t \in index |-> RZero],
                            lower |-> [t \in index |-> NegInf],
                            upper |-> [t \in index |-> PosInf],
                            close |-> EmptyDict,
                            value |-> EmptyDict,
                            percent |-> EmptyDict])])

\* import_csv of the default file, with or without its ticker column
import_csv(s, has_ticker) ==
    import_csv_file(s, IF has_ticker THEN DefaultCsv
                       ELSE [DefaultCsv EXCEPT !.columns = {"shares"}])

\* not a number, and the quotient of two floats: 0/0 is nan, x/0 an infinity
NaN == <<0, 0>>
FDiv(p, q) ==
    IF q # RZero THEN RDiv(p, q)
    ELSE IF p = RZero THEN NaN
    ELSE IF RLt(RZero, p) THEN PosInf ELSE NegInf

RECURSIVE RSumOf(_, _)
\* sum of the column f over the tickers K
RSumOf(f, K) ==
    IF K = {} THEN RZero
    ELSE LET k == CHOOSE k \in K : TRUE IN RAdd(f[k], RSumOf(f, K \ {k}))

\* _update_prices: item assignment on self.portfolio, a TypeError on None
update_prices(s) ==
    IF s.portfolio = Nothing THEN Raise(s, "TypeError")
    ELSE LET p == The(s.portfolio)
             index == Range(p.index)
             value == [t \in index |-> RMul(p.shares[t], Closes[t])]
             total == RSumOf(value, index)
         IN  Done([s EXCEPT !.portfolio =
                   Some([p EXCEPT !.columns = @ \cup PriceColumns,
                                  !.close = [t \in index |-> Closes[t]],
                                  !.value = value,
                                  !.percent = [t \in index |-> FDiv(value[t], total)]])])

\* get_value: the sum of value ($), 0.0 on the KeyError or TypeError
get_value(s) ==
    IF s.portfolio = Nothing \/ "value ($)" \notin The(s.portfolio).columns THEN RZero
    ELSE RSumOf(The(s.portfolio).value, Range(The(s.portfolio).index))

\* the check retrieve_frontier makes first
FrontierPrecondition_ModelsOnly(s) == has_models(s)

FrontierPrecondition(s) == has_prices(s) /\ has_models(s)

\* _get_portfolio_query: [exc, query]
get_portfolio_query(s, cashflow) ==
    LET g == get_model(s)
    IN  IF g.exc # "none" THEN [exc |-> g.exc, query |-> Nothing]
        ELSE [exc |-> "none",
              query |-> Some([model |-> The(g.model), cashflow |-> cashflow])]

\* the solver's answers: an error raised by the client, or a frontier list
\* whose i-th point has mu = i and x = i
StatusLists == {<<>>, <<"optimal">>, <<"infeasible">>}
Answer(sts) ==
    [error |-> FALSE,
     frontier |-> [i \in 1..Len(sts) |-> [mu |-> i, x |-> i, status |-> sts[i]]]]
Failure == [error |-> TRUE, frontier |-> <<>>]
Responses == {Failure} \cup {Answer(sts) : sts \in StatusLists}

RECURSIVE OptimalRows(_, _, _)
\* retrieve_frontier, the loop over sol['frontier']: the first i points
OptimalRows(pts, model, i) ==
    IF i = 0 THEN <<>>
    ELSE LET rest == OptimalRows(pts, model, i - 1)
         IN  IF pts[i].status = "optimal"
             THEN Append(rest, [x |-> pts[i].x, mu |-> Given(pts[i].mu),
                                std |-> return_and_variance(pts[i].x, model).std])
             ELSE rest

\* the await of portfolio_client.call raised: the exception leaves the method
OnSolverError(s) == Raise(s, "ClientError")

\* retrieve_frontier that does not save the query
ResumeFrontier_NoParams(s, query, resp) ==
    IF resp.error THEN OnSolverError(s)
    ELSE IF Len(resp.frontier) = 0 THEN Raise(invalidate_frontier(s), "ValueError")
    ELSE LET g == get_model(s)
         IN  IF g.exc # "none" THEN Raise(s, g.exc)
             ELSE Done([s EXCEPT
                     !.frontier = Some(OptimalRows(resp.frontier, The(g.model),
                                                   Len(resp.frontier))),
                     !.frontier_method = "optimal"])

\* retrieve_frontier from the return of the solver call on
ResumeFrontier(s, query, resp) ==
    IF resp.error THEN OnSolverError(s)
    ELSE IF Len(resp.frontier) = 0 THEN Raise(invalidate_frontier(s), "ValueError")
    ELSE LET g == get_model(s)
         IN  IF g.exc # "none" THEN Raise(s, g.exc)
             ELSE Done([s EXCEPT
                     !.frontier = Some(OptimalRows(resp.frontier, The(g.model),
                                                   Len(resp.frontier))),
                     !.frontier_query_params = Some(query),
                     !.frontier_method = "optimal"])

\* retrieve_models from the return of the model call on
ResumeModels(s, include_prices, w, resp) ==
    IF resp.error THEN Raise(s, "ClientError")
    ELSE LET p == IF include_prices THEN update_prices(s) ELSE Done(s)
         IN  IF p.exc # "none" THEN p ELSE set_models(p.self, resp.models, w)

ModelResponses ==
    {[error |-> TRUE, models |-> EmptyDict]}
        \cup {[error |-> FALSE, models |-> ms] : ms \in ModelDicts}

(***************************************************************************)
(* The operations of a Portfolio.  A coroutine runs from one await to the  *)
(* next without interruption; while it waits for the client's answer, any  *)
(* other operation may run.                                                *)
(***************************************************************************)
POp(name, phase, outcome, arg) ==
    [name |-> name, phase |-> phase, outcome |-> outcome, arg |-> arg,
     had |-> frontier # Nothing]

Outcome(r) == IF r.exc = "none" THEN "ok" ELSE r.exc

Idle(op) == pending[op] = Nothing

\* a method without await
Sync(r) ==
    /\ Save(r.self)
    /\ UNCHANGED <<pending, napplied, mvars, nsteps, cvars>>

\* a coroutine that reaches its await: the client call goes out
Await(name, locals) ==
    /\ Cardinality({op \in AsyncOps : ~Idle(op)}) < MaxPending
    /\ Save(Self)
    /\ pending' = [pending EXCEPT ![name] = Some(locals)]
    /\ UNCHANGED <<napplied, mvars, nsteps, cvars>>

\* a coroutine that runs from the client's answer to its end
Resume(name, r) ==
    /\ Save(r.self)
    /\ pending' = [pending EXCEPT ![name] = Nothing]
    /\ UNCHANGED <<napplied, mvars, nsteps, cvars>>

P_ImportCsv(has_ticker) ==
    /\ Sync(import_csv(Self, has_ticker))
    /\ pop' = POp("import_csv", "sync", Outcome(import_csv(Self, has_ticker)), {})

P_InvalidateModel ==
    /\ Sync(Done(invalidate_model(Self)))
    /\ pop' = POp("invalidate_model", "sync", "ok", {})

P_InvalidateFrontier ==
    /\ Sync(Done(invalidate_frontier(Self)))
    /\ pop' = POp("invalidate_frontier", "sync", "ok", {})

P_SetModels(ms, w) ==
    /\ Sync(set_models(Self, ms, w))
    /\ pop' = POp("set_models", "sync", Outcome(set_models(Self, ms, w)),
                  Some([models |-> ms, weights |-> w]))

P_SetModelsWeights(w) ==
    /\ Sync(set_models_weights(Self, w))
    /\ pop' = POp("set_models_weights", "sync",
                  Outcome(set_models_weights(Self, w)), Some(w))

P_SetModelMethod(method) ==
    /\ Sync(Done(set_model_method(Self, method)))
    /\ pop' = POp("set_model_method", "sync", "ok", {})

\* retrieve_prices up to the await: self.portfolio.index fails on None
P_RetrievePricesCall ==
    /\ Idle("retrieve_prices")
    /\ IF portfolio = Nothing
       THEN /\ Sync(Done(Self))
            /\ pop' = POp("retrieve_prices", "call", "AttributeError", {})
       ELSE /\ Await("retrieve_prices", [symbols |-> TRUE])
            /\ pop' = POp("retrieve_prices", "call", "awaiting", {})

\* retrieve_prices from the answer of the client on
P_RetrievePricesReturn(error) ==
    /\ ~Idle("retrieve_prices")
    /\ \E r \in {IF error THEN Raise(Self, "ClientError") ELSE update_prices(Self)} :
           /\ Resume("retrieve_prices", r)
           /\ pop' = POp("retrieve_prices", "resume", Outcome(r), {})

\* retrieve_models up to the await
P_RetrieveModelsCall(include_prices, w) ==
    /\ Idle("retrieve_models")
    /\ IF portfolio = Nothing
       THEN /\ Sync(Done(Self))
            /\ pop' = POp("retrieve_models", "call", "AttributeError", {})
       ELSE /\ Await("retrieve_models",
                     [include_prices |-> include_prices, model_weights |-> w])
            /\ pop' = POp("retrieve_models", "call", "awaiting", {})

\* retrieve_models from the answer of the client on
P_RetrieveModelsReturn(resp) ==
    /\ ~Idle("retrieve_models")
    /\ \E l \in pending["retrieve_models"] :
       \E r \in {ResumeModels(Self, l.include_prices, l.model_weights, resp)} :
           /\ Resume("retrieve_models", r)
           /\ pop' = POp("retrieve_models", "resume", Outcome(r),
                          Some([model_weights |-> l.model_weights, answer |-> resp]))

\* retrieve_frontier up to the await
P_RetrieveFrontierCall(cashflow) ==
    /\ Idle("retrieve_frontier")
    /\ IF ~FrontierPrecondition(Self)
       THEN /\ Sync(Done(Self))
            /\ pop' = POp("retrieve_frontier", "call", "AssertionError", {})
       ELSE \E q \in {get_portfolio_query(Self, cashflow)} :
                IF q.exc # "none"
                THEN /\ Sync(Done(Self))
                     /\ pop' = POp("retrieve_frontier", "call", q.exc, {})
                ELSE /\ Await("retrieve_frontier", [query |-> The(q.query)])
                     /\ pop' = POp("retrieve_frontier", "call", "awaiting", {})

\* retrieve_frontier from the answer of the solver on
P_RetrieveFrontierReturn(resp) ==
    /\ ~Idle("retrieve_frontier")
    /\ \E l \in pending["retrieve_frontier"] :
       \E r \in {ResumeFrontier(Self, l.query, resp)} :
           /\ Resume("retrieve_frontier", r)
           /\ pop' = POp("retrieve_frontier", "resume", Outcome(r), Some(resp))

\* a new Portfolio and no Model
(***************************************************************************)
(* class Client.  A response of the server is [status, detail, body]: the  *)
(* detail is the 'detail' entry of its JSON content, None when the content *)
(* has none; NoResponse is a request that raised before any response.      *)
(***************************************************************************)
NoResponse == [status |-> 0, detail |-> Nothing, body |-> 0]

\* Client.__init__ with a username and a password
NewClient(token, auto_token_renewal) ==
    [token |-> token, auto_token_renewal |-> auto_token_renewal, detail |-> Nothing]

\* Response.ok
Ok(r) == r.status < 400

\* Client.get_token answered with r
get_token(c, r) ==
    IF r = NoResponse THEN [self |-> c, exc |-> "ConnectionError", ret |-> Nothing]
    ELSE IF Ok(r)
         THEN [self |-> [c EXCEPT !.detail = Nothing, !.token = Some(r.body)],
               exc |-> "none", ret |-> Nothing]
         ELSE [self |-> [c EXCEPT !.detail = Nothing], exc |-> "HTTPError", ret |-> Nothing]

\* Client.call answered with tr by get_token (when the token is renewed) and
\* with r by the entry point
call(c, tr, r) ==
    IF c.token = Nothing /\ ~c.auto_token_renewal
    THEN [self |-> c, exc |-> "PyOptimumException", msg |-> Some("No token available"),
          ret |-> Nothing]
    ELSE LET t == IF c.auto_token_renewal THEN get_token(c, tr)
                  ELSE [self |-> c, exc |-> "none", ret |-> Nothing]
             c1 == t.self
         IN  IF t.exc # "none"
             THEN [self |-> c1, exc |-> t.exc, msg |-> Nothing, ret |-> Nothing]
             ELSE IF r = NoResponse
             THEN [self |-> c1, exc |-> "ConnectionError", msg |-> Nothing, ret |-> Nothing]
             ELSE IF Ok(r)
             THEN [self |-> [c1 EXCEPT !.detail = Nothing], exc |-> "none",
                   msg |-> Nothing, ret |-> Some(r.body)]
             ELSE IF r.status = 400 /\ r.detail \notin {Nothing, Some("")}
             THEN [self |-> [c1 EXCEPT !.detail = r.detail], exc |-> "PyOptimumException",
                   msg |-> r.detail, ret |-> Nothing]
             ELSE [self |-> IF r.status = 400 THEN [c1 EXCEPT !.detail = r.detail] ELSE c1,
                   exc |-> "HTTPError", msg |-> Nothing, ret |-> Nothing]

COp(name, outcome, msg, returned, response) ==
    [name |-> name, outcome |-> outcome, msg |-> msg, ret |-> returned, response |-> response]

InitClient ==
    /\ client = NewClient(Nothing, TRUE)
    /\ cop = COp("init", "none", Nothing, Nothing, NoResponse)

InitPortfolio ==
    /\ portfolio = NewPortfolio.portfolio
    /\ models = NewPortfolio.models
    /\ model_weights = NewPortfolio.model_weights
    /\ model_method = NewPortfolio.model_method
    /\ frontier = NewPortfolio.frontier
    /\ frontier_query_params = NewPortfolio.frontier_query_params
    /\ frontier_method = NewPortfolio.frontier_method
    /\ pending = [op \in AsyncOps |-> Nothing]
    /\ pop = [name |-> "init", phase |-> "sync", outcome |-> "ok", arg |-> {},
              had |-> FALSE]
    /\ napplied = 0

Init == InitModel /\ InitPortfolio /\ InitClient

Next ==
    \/ \E has_ticker \in BOOLEAN : P_ImportCsv(has_ticker)
    \/ P_InvalidateModel
    \/ P_InvalidateFrontier
    \/ \E ms \in ModelDicts, w \in WeightDicts : P_SetModels(ms, w)
    \/ \E w \in WeightDicts : P_SetModelsWeights(w)
    \/ \E method \in Methods : P_SetModelMethod(method)
    \/ P_RetrievePricesCall
    \/ \E error \in BOOLEAN : P_RetrievePricesReturn(error)
    \/ \E include_prices \in BOOLEAN, w \in ArgWeightDicts :
          P_RetrieveModelsCall(include_prices, w)
    \/ \E resp \in ModelResponses : P_RetrieveModelsReturn(resp)
    \/ \E cashflow \in Cashflows : P_RetrieveFrontierCall(cashflow)
    \/ \E resp \in Responses : P_RetrieveFrontierReturn(resp)

Spec == Init /\ [][Next]_vars

SpecModel == Init /\ [][NextModel]_vars

SpecCopy == Init /\ [][NextCopy]_vars

(***************************************************************************)
(* Properties of class Portfolio                                           *)
(***************************************************************************)
\* the step just taken was the part of retrieve_frontier after its await
FrontierResumed == pop.name = "retrieve_frontier" /\ pop.phase = "resume"

EmptyAnswer == Answer(<<>>)

NoOptimalAnswer == Answer(<<"infeasible">>)

FrontierState == <<frontier, frontier_query_params, frontier_method>>

\* C5: the provenance tag is 'none' for a new Portfolio; the part of
\* retrieve_frontier after a successful solve leaves it 'optimal' whatever it
\* was; a successful set_models_weights with a frontier present leaves it
\* 'approximate'; and a step of any other operation leaves the tag as it
\* was or 'none'.
C5_TagStep ==
    /\ (FrontierResumed' /\ pop'.outcome = "ok") => frontier_method' = "optimal"
    /\ (pop'.name = "set_models_weights" /\ pop'.outcome = "ok" /\ frontier # Nothing)
           => frontier_method' = "approximate"
    /\ (frontier_method' = "optimal" /\ ~(FrontierResumed' /\ pop'.outcome = "ok"))
           => frontier_method = "optimal"
    /\ (frontier_method' = "approximate"
            /\ ~(pop'.name = "set_models_weights" /\ pop'.outcome = "ok"))
           => frontier_method = "approximate"

C5_ProvenanceTag == frontier_method = "none" /\ [][C5_TagStep]_vars

\* a frontier recomputed to 'approximate' was solved again and is 'optimal'
C5_Witness ==
    /\ FrontierResumed /\ pop.outcome = "ok" /\ pop.had
    /\ frontier_method = "optimal"

\* C6: after the solver answered with an empty frontier list, retrieve_frontier
\* has raised ValueError (not the AssertionError of a precondition), no
\* frontier is held, the tag is 'none' and the stored query is empty.
C6_EmptyFrontierInvalidates ==
    (FrontierResumed /\ pop.arg = Some(EmptyAnswer)) =>
        /\ pop.outcome = "ValueError"
        /\ ~has_frontier(Self)
        /\ frontier_method = "none"
        /\ frontier_query_params = Nothing

\* the empty answer came while a frontier was held
C6_Witness ==
    FrontierResumed /\ pop.arg = Some(EmptyAnswer) /\ pop.had /\ frontier = Nothing

\* C7, as stated: after a solve that failed, by an error raised by the solver
\* call or by an empty frontier list, no frontier is held, the tag is 'none'
\* and the stored query is empty.
C7_AnyFailedSolveResets ==
    (FrontierResumed /\ pop.arg \in {Some(Failure), Some(EmptyAnswer)}) =>
        /\ frontier = Nothing
        /\ frontier_method = "none"
        /\ frontier_query_params = Nothing

\* C8, as stated: after the solver answered with points none of which is
\* optimal, retrieve_frontier has raised ValueError and no frontier is held.
C8_NoOptimalPointIsInfeasible ==
    (FrontierResumed /\ pop.arg = Some(NoOptimalAnswer)) =>
        (pop.outcome = "ValueError" /\ ~has_frontier(Self))

\* C9: retrieve_frontier called without prices or without models raises
\* AssertionError, sends no call to a client, and leaves the frontier, the
\* stored query and the tag as they were.
C9_Step ==
    (pop'.name = "retrieve_frontier" /\ pop'.phase = "call"
        /\ ~(has_prices(Self) /\ has_models(Self))) =>
        /\ pop'.outcome = "AssertionError"
        /\ UNCHANGED <<FrontierState, pending>>

C9_MissingPricesOrModels == [][C9_Step]_vars

\* retrieve_frontier was refused while a frontier was held and no model was
C9_Witness ==
    /\ pop.name = "retrieve_frontier" /\ pop.phase = "call"
    /\ pop.outcome = "AssertionError"
    /\ frontier # Nothing /\ ~has_models(Self)

\* C10, as stated: no operation raises the AssertionError of a precondition
\* after it sent its call to a client.  Read in favour of the code, the
\* assertion that the model client answered with no model at all is left
\* out, since no check before the call can make it.
C10_PreconditionsBeforeCalls ==
    (pop.phase = "resume" /\ pop.outcome = "AssertionError") =>
        (pop.name = "retrieve_models" /\ Keys(The(pop.arg).answer.models) = {})

(***************************************************************************)
(* The models and their weights: set_models, set_models_weights and        *)
(* get_model under every small dictionary of weights.                      *)
(***************************************************************************)
WeightValues == {-1, 0, 1, 3}
WeightInputs == UNION {[K -> WeightValues] : K \in SUBSET Ranges}

\* a call of get_model; what it returns is kept in pop.arg
P_GetModel ==
    /\ Sync(Done(Self))
    /\ pop' = POp("get_model", "sync",
                  IF get_model(Self).exc = "none" THEN "ok" ELSE get_model(Self).exc,
                  get_model(Self).model)

NextWeights ==
    \/ \E ms \in ModelDicts, w \in WeightInputs : P_SetModels(ms, w)
    \/ \E w \in WeightInputs : P_SetModelsWeights(w)
    \/ \E method \in Methods : P_SetModelMethod(method)
    \/ P_InvalidateModel
    \/ P_GetModel

SpecWeights == Init /\ [][NextWeights]_vars

RECURSIVE RSumOver(_, _)
\* the sum of the stored weights of the ranges K
RSumOver(mw, K) ==
    IF K = {} THEN RZero
    ELSE LET k == CHOOSE k \in K : TRUE IN RAdd(mw[k], RSumOver(mw, K \ {k}))

\* mw holds the weights w over the keys of ms, scaled to sum to one
ScaledTo(mw, ms, w) ==
    /\ Keys(mw) = Keys(ms)
    /\ \A rg \in Keys(mw) : RLe(RZero, mw[rg])
    /\ RSumOver(mw, Keys(mw)) = ROne
    /\ \A rg \in Keys(mw) :
          IF SumOver(w, Keys(w)) > 0
          THEN RMul(mw[rg], RInt(SumOver(w, Keys(w)))) = RInt(w[rg])
          ELSE RMul(mw[rg], RInt(Cardinality(Keys(ms)))) = ROne

\* the weights a successful call took: set_models defaults each weight to 1
WeightsTaken ==
    IF pop'.name = "set_models_weights" THEN The(pop'.arg)
    ELSE IF Keys(The(pop'.arg).weights) = {}
         THEN [rg \in Keys(The(pop'.arg).models) |-> 1]
         ELSE The(pop'.arg).weights

C11_Step ==
    pop'.name \in {"set_models", "set_models_weights"} /\ pop'.outcome = "ok"
        => ScaledTo(model_weights', models', WeightsTaken)

\* C11: after every successful set_models_weights or set_models the stored
\* weights have exactly the keys of the stored models, are non-negative and
\* sum to one: each is its input over the sum of the inputs, or 1/len(models)
\* when every input is zero
C11_WeightsNormalized == [][C11_Step]_vars

\* set_models_weights stored one quarter and three quarters for weights 1 and 3
C11_Witness ==
    /\ pop.name = "set_models_weights" /\ pop.outcome = "ok"
    /\ pop.arg = Some([rg \in Ranges |-> IF rg = "1mo" THEN 1 ELSE 3])
    /\ model_weights = [rg \in Ranges |-> IF rg = "1mo" THEN <<1, 4>> ELSE <<3, 4>>]

\* the call set_models_weights(w) must refuse
Refused(w) ==
    \/ Keys(models) = {}
    \/ Keys(w) # Keys(models)
    \/ \E rg \in Keys(w) : w[rg] < 0

C12_Step ==
    pop'.name = "set_models_weights" /\ Refused(The(pop'.arg))
        => /\ pop'.outcome = "AssertionError"
           /\ UNCHANGED <<model_weights, frontier, frontier_method>>

\* C12: set_models_weights with no models stored, with keys that differ from
\* the models' keys, or with a negative weight raises AssertionError and leaves
\* the stored weights, the frontier rows and the provenance tag as they were
C12_RefusedWeightsChangeNothing == [][C12_Step]_vars

\* a negative weight for the one stored model was refused with a frontier stored
C12_Witness ==
    /\ pop.name = "set_models_weights" /\ pop.outcome = "AssertionError"
    /\ Keys(The(pop.arg)) = Keys(models)
    /\ \E rg \in Keys(The(pop.arg)) : The(pop.arg)[rg] < 0
    /\ frontier # Nothing /\ The(frontier) # <<>>

\* the Model whose attributes are the weight-sums of the stored sub-models'
WeightSum ==
    [method |-> IF model_method = "linear" \/ Cardinality(Keys(models)) = 1
                THEN "linear" ELSE "linear-fractional",
     parts  |-> [rg \in Keys(models) |->
                    [weight |-> model_weights[rg], data |-> models[rg]]]]

\* C13: get_model fails with an assertion error when no sub-model is stored;
\* otherwise it returns a new Model whose attributes are the weight-sums of the
\* sub-models' attributes: of D when the method is linear or one sub-model is
\* stored, of Di when it is linear-fractional with two or more
C13_GetModelIsWeightSum ==
    pop.name = "get_model"
        => IF Keys(models) = {} THEN pop.outcome = "AssertionError"
           ELSE /\ pop.outcome = "ok"
                /\ Keys(model_weights) = Keys(models)
                /\ pop.arg = Some(WeightSum)

(***************************************************************************)
(* The constraints on the positions: apply_constraint and                  *)
(* remove_constraints on the lower and upper columns of the table.         *)
(***************************************************************************)
LESS_THAN_OR_EQUAL == "<="
GREATER_THAN_OR_EQUAL == ">="
ConstraintFunctions == {"purchases", "sales", "holdings", "short sales"}
ConstraintSigns == {LESS_THAN_OR_EQUAL, GREATER_THAN_OR_EQUAL}
ConstraintUnits == {"shares", "value", "percent value"}

\* apply_constraint, "make sure value is in shares", for the ticker t of table p
InShares(c, p, t) ==
    IF c.unit = "value" THEN RDiv(RInt(c.value), p.close[t])
    ELSE IF c.unit = "percent value"
         THEN RMul(RInt(c.value), RDiv(p.shares[t], RInt(100)))
         ELSE RInt(c.value)

\* the table of functions and signs with sales and purchases exchanged
Bound_Exchanged(c, S, v) ==
    IF c.function = "purchases"
    THEN IF c.sign = LESS_THAN_OR_EQUAL THEN [lb |-> Some(RSub(S, v)), ub |-> Nothing]
         ELSE [lb |-> Nothing, ub |-> Some(RSub(S, v))]
    ELSE IF c.function = "sales"
    THEN IF c.sign = LESS_THAN_OR_EQUAL THEN [lb |-> Nothing, ub |-> Some(RAdd(S, v))]
         ELSE [lb |-> Some(RAdd(S, v)), ub |-> Nothing]
    ELSE IF c.function = "short sales"
    THEN IF c.sign = LESS_THAN_OR_EQUAL THEN [lb |-> Some(RNeg(v)), ub |-> Nothing]
         ELSE [lb |-> Nothing, ub |-> Some(RNeg(v))]
    ELSE IF c.sign = LESS_THAN_OR_EQUAL THEN [lb |-> Nothing, ub |-> Some(v)]
         ELSE [lb |-> Some(v), ub |-> Nothing]

\* apply_constraint, the table of functions and signs: lb and ub for shares S
\* and value v, each None or a number
Bound(c, S, v) ==
    IF c.function = "sales"
    THEN IF c.sign = LESS_THAN_OR_EQUAL THEN [lb |-> Some(RSub(S, v)), ub |-> Nothing]
         ELSE [lb |-> Nothing, ub |-> Some(RSub(S, v))]
    ELSE IF c.function = "purchases"
    THEN IF c.sign = LESS_THAN_OR_EQUAL THEN [lb |-> Nothing, ub |-> Some(RAdd(S, v))]
         ELSE [lb |-> Some(RAdd(S, v)), ub |-> Nothing]
    ELSE IF c.function = "short sales"
    THEN IF c.sign = LESS_THAN_OR_EQUAL THEN [lb |-> Some(RNeg(v)), ub |-> Nothing]
         ELSE [lb |-> Nothing, ub |-> Some(RNeg(v))]
    ELSE IF c.sign = LESS_THAN_OR_EQUAL THEN [lb |-> Nothing, ub |-> Some(v)]
         ELSE [lb |-> Some(v), ub |-> Nothing]

\* the clamps with "no buys" applied before "short sales"
Clamp_BuyFirst(c, S, b) ==
    LET b1 == IF ~c.buy /\ RLt(S, b) THEN S ELSE b
        b2 == IF ~c.short_sales /\ ~RLt(RZero, b1) THEN RZero ELSE b1
        b3 == IF ~c.sell /\ RLt(b2, S) THEN S ELSE b2
    IN  b3

\* the clamps without the one of "no sells"
Clamp_NoSell(c, S, b) ==
    LET b1 == IF ~c.short_sales /\ ~RLt(RZero, b) THEN RZero ELSE b
        b2 == IF ~c.buy /\ RLt(S, b1) THEN S ELSE b1
    IN  b2

\* apply_constraint, "short sales", "no buys" and "no sells" on one bound b
Clamp(c, S, b) ==
    LET b1 == IF ~c.short_sales /\ ~RLt(RZero, b) THEN RZero ELSE b
        b2 == IF ~c.buy /\ RLt(S, b1) THEN S ELSE b1
        b3 == IF ~c.sell /\ RLt(b2, S) THEN S ELSE b2
    IN  b3

\* apply_constraint writing the bounds of every ticker of the table
apply_constraint_AllTickers(s, c) ==
    IF c.tickers = <<>> THEN Done(s)
    ELSE IF s.portfolio = Nothing THEN Raise(s, "AttributeError")
    ELSE IF c.unit = "value" /\ "close ($)" \notin The(s.portfolio).columns
         THEN Raise(s, "KeyError")
    ELSE LET p == The(s.portfolio)
             b(t) == Bound(c, p.shares[t], InShares(c, p, t))
             lower == [t \in Tickers |->
                         IF b(t).lb # Nothing
                         THEN XMax(p.lower[t], Clamp(c, p.shares[t], The(b(t).lb)))
                         ELSE p.lower[t]]
             upper == [t \in Tickers |->
                         IF b(t).ub # Nothing
                         THEN XMin(p.upper[t], Clamp(c, p.shares[t], The(b(t).ub)))
                         ELSE p.upper[t]]
         IN  Done([s EXCEPT !.portfolio =
                      Some([p EXCEPT !.lower = lower, !.upper = upper])])

\* apply_constraint with the arguments c
apply_constraint(s, c) ==
    IF c.tickers = <<>> THEN Done(s)
    ELSE IF s.portfolio = Nothing THEN Raise(s, "AttributeError")
    ELSE IF c.unit = "value" /\ "close ($)" \notin The(s.portfolio).columns
         THEN Raise(s, "KeyError")
    ELSE LET p == The(s.portfolio)
             b(t) == Bound(c, p.shares[t], InShares(c, p, t))
             lower == [t \in Tickers |->
                         IF t \in Range(c.tickers) /\ b(t).lb # Nothing
                         THEN XMax(p.lower[t], Clamp(c, p.shares[t], The(b(t).lb)))
                         ELSE p.lower[t]]
             upper == [t \in Tickers |->
                         IF t \in Range(c.tickers) /\ b(t).ub # Nothing
                         THEN XMin(p.upper[t], Clamp(c, p.shares[t], The(b(t).ub)))
                         ELSE p.upper[t]]
         IN  Done([s EXCEPT !.portfolio =
                      Some([p EXCEPT !.lower = lower, !.upper = upper])])

\* remove_constraints that resets the lower bounds only
remove_constraints_LowerOnly(s, tickers) ==
    IF tickers = <<>> THEN Done(s)
    ELSE IF s.portfolio = Nothing THEN Raise(s, "AttributeError")
    ELSE LET p == The(s.portfolio)
         IN  Done([s EXCEPT !.portfolio = Some([p EXCEPT
                 !.lower = [t \in Tickers |->
                               IF t \in Range(tickers) THEN NegInf ELSE p.lower[t]]])])

remove_constraints(s, tickers) ==
    IF tickers = <<>> THEN Done(s)
    ELSE IF s.portfolio = Nothing THEN Raise(s, "AttributeError")
    ELSE LET p == The(s.portfolio)
         IN  Done([s EXCEPT !.portfolio = Some([p EXCEPT
                 !.lower = [t \in Tickers |->
                               IF t \in Range(tickers) THEN NegInf ELSE p.lower[t]],
                 !.upper = [t \in Tickers |->
                               IF t \in Range(tickers) THEN PosInf ELSE p.upper[t]]])])

\* the arguments of an apply_constraint call; the three flags are given together
Constraint(tickers, function, sign, value, unit, allowed) ==
    [tickers |-> tickers, function |-> function, sign |-> sign, value |-> value,
     unit |-> unit, short_sales |-> allowed, buy |-> allowed, sell |-> allowed]

TickerLists == {<<"A">>, <<"A", "B">>}
ConstraintValues == {50, 150}

\* the calls made: every function, sign and unit with the flags at their
\* defaults, holdings in shares with every flag off, and an empty list
ConstraintArgs ==
    {Constraint(tk, f, sg, 50, u, TRUE) :
        tk \in TickerLists, f \in ConstraintFunctions, sg \in ConstraintSigns,
        u \in ConstraintUnits}
    \cup {Constraint(tk, "holdings", sg, v, "shares", FALSE) :
        tk \in TickerLists, sg \in ConstraintSigns, v \in ConstraintValues}
    \cup {Constraint(<<>>, "holdings", LESS_THAN_OR_EQUAL, 50, "shares", TRUE)}

P_ApplyConstraint(c) ==
    /\ napplied < MaxConstraints
    /\ Save(apply_constraint(Self, c).self)
    /\ napplied' = napplied + 1
    /\ pop' = POp("apply_constraint", "sync", Outcome(apply_constraint(Self, c)), Some(c))
    /\ UNCHANGED <<pending, mvars, nsteps, cvars>>

P_RemoveConstraints(tickers) ==
    /\ Sync(remove_constraints(Self, tickers))
    /\ pop' = POp("remove_constraints", "sync",
                  Outcome(remove_constraints(Self, tickers)), Some(tickers))

NextConstraints ==
    \/ P_ImportCsv(TRUE)
    \/ P_RetrievePricesCall
    \/ P_RetrievePricesReturn(FALSE)
    \/ \E c \in ConstraintArgs : P_ApplyConstraint(c)
    \/ \E tickers \in TickerLists \cup {<<>>} : P_RemoveConstraints(tickers)

SpecConstraints == Init /\ [][NextConstraints]_vars

\* the step is an apply_constraint call that returned
Applied == pop'.name = "apply_constraint" /\ pop'.outcome = "ok"

\* the ticker t has no constraint
Unconstrained(p, t) == p.lower[t] = NegInf /\ p.upper[t] = PosInf

\* the value of the call in shares, as the units are defined
ValueInShares(c, p, t) ==
    CASE c.unit = "shares" -> RInt(c.value)
      [] c.unit = "value" -> RDiv(RInt(c.value), p.close[t])
      [] c.unit = "percent value" -> RDiv(RMul(RInt(c.value), p.shares[t]), RInt(100))

\* the bound each function and sign sets, for shares S and value v
TableHolds(c, S, v, lower, upper) ==
    /\ c.function = "sales" /\ c.sign = "<=" => lower = RSub(S, v)
    /\ c.function = "sales" /\ c.sign = ">=" => upper = RSub(S, v)
    /\ c.function = "purchases" /\ c.sign = "<=" => upper = RAdd(S, v)
    /\ c.function = "purchases" /\ c.sign = ">=" => lower = RAdd(S, v)
    /\ c.function = "short sales" /\ c.sign = "<=" => lower = RNeg(v)
    /\ c.function = "short sales" /\ c.sign = ">=" => upper = RNeg(v)
    /\ c.function = "holdings" /\ c.sign = "<=" => upper = v
    /\ c.function = "holdings" /\ c.sign = ">=" => lower = v

C14_Step ==
    Applied =>
        LET c == The(pop'.arg)
        IN  \A t \in Range(c.tickers) :
                /\ c.short_sales /\ c.buy /\ c.sell
                /\ Unconstrained(The(portfolio), t)
                => TableHolds(c, The(portfolio).shares[t],
                              ValueInShares(c, The(portfolio), t),
                              The(portfolio').lower[t], The(portfolio').upper[t])

\* C14: with all three flags true and no prior constraint, apply_constraint
\* sets lower = S - v or upper = S - v for sales, upper = S + v or lower = S + v
\* for purchases, lower = -v or upper = -v for short sales and upper = v or
\* lower = v for holdings, for the signs <= and >= in this order, where v is
\* the value in shares: value, value / close or value * S / 100
C14_ConstraintTable == [][C14_Step]_vars

\* sales <= 50 percent of the 100 shares of A set its lower bound to 50
C14_Witness ==
    /\ pop.name = "apply_constraint" /\ pop.outcome = "ok"
    /\ pop.arg = Some(Constraint(<<"A">>, "sales", "<=", 50, "percent value", TRUE))
    /\ The(portfolio).lower["A"] = RInt(50)
    /\ The(portfolio).upper["A"] = PosInf

C15_Step ==
    pop'.name = "apply_constraint" /\ portfolio # Nothing
        => \A t \in Tickers :
              /\ XLe(The(portfolio).lower[t], The(portfolio').lower[t])
              /\ XLe(The(portfolio').upper[t], The(portfolio).upper[t])

\* C15: an apply_constraint call never loosens a bound: the new lower bound is
\* the larger of the existing and the computed one, the new upper bound the
\* smaller
C15_ConstraintsOnlyTighten == [][C15_Step]_vars

\* purchases <= 50 computed the upper bound 150 for A and the bound 50 stayed
C15_Witness ==
    /\ pop.name = "apply_constraint" /\ pop.outcome = "ok"
    /\ pop.arg = Some(Constraint(<<"A">>, "purchases", "<=", 50, "shares", TRUE))
    /\ The(portfolio).upper["A"] = RInt(50)

\* the table with every constraint removed
Fresh(s) ==
    [s EXCEPT !.portfolio = Some([The(s.portfolio) EXCEPT
                 !.lower = [t \in Tickers |-> NegInf],
                 !.upper = [t \in Tickers |-> PosInf]])]

C16_Step ==
    /\ pop'.name = "remove_constraints" /\ pop'.outcome = "ok" /\ portfolio # Nothing
       => \A t \in Tickers :
             IF t \in Range(The(pop'.arg))
             THEN Unconstrained(The(portfolio'), t)
             ELSE /\ The(portfolio').lower[t] = The(portfolio).lower[t]
                  /\ The(portfolio').upper[t] = The(portfolio).upper[t]
    /\ /\ pop.name = "remove_constraints" /\ pop.outcome = "ok"
       /\ pop'.name = "apply_constraint" /\ pop'.outcome = "ok"
       => \A t \in Range(The(pop.arg)) :
             /\ The(portfolio').lower[t]
                   = The(apply_constraint(Fresh(Self), The(pop'.arg)).self.portfolio).lower[t]
             /\ The(portfolio').upper[t]
                   = The(apply_constraint(Fresh(Self), The(pop'.arg)).self.portfolio).upper[t]

\* C16: remove_constraints resets the bounds of exactly the listed tickers to
\* (-inf, +inf), whatever they were, and an apply_constraint that follows gives
\* them the bounds it gives to a table that never had a constraint
C16_RemoveResetsListed == [][C16_Step]_vars

\* the constraints of A were removed and those of B, set together with them,
\* stayed
C16_Witness ==
    /\ pop.name = "remove_constraints" /\ pop.outcome = "ok"
    /\ pop.arg = Some(<<"A">>)
    /\ Unconstrained(The(portfolio), "A")
    /\ ~Unconstrained(The(portfolio), "B")

\* holdings in shares with short sales, buying and selling all off
Pinning(c) ==
    /\ c.function = "holdings" /\ c.unit = "shares"
    /\ ~c.short_sales /\ ~c.buy /\ ~c.sell

C17_Step ==
    Applied /\ Pinning(The(pop'.arg)) =>
        \A t \in Range(The(pop'.arg).tickers) :
            /\ RLe(RZero, The(portfolio).shares[t])
            /\ The(portfolio).lower[t] = NegInf
            => /\ The(pop'.arg).sign = "<=" /\ The(portfolio).upper[t] = PosInf
                  => /\ The(portfolio').upper[t] = The(portfolio).shares[t]
                     /\ The(portfolio').lower[t] = NegInf
               /\ The(pop'.arg).sign = ">="
                     /\ The(portfolio).upper[t] \in {PosInf, The(portfolio).shares[t]}
                  => /\ The(portfolio').lower[t] = The(portfolio).shares[t]
                     /\ The(portfolio').upper[t] = The(portfolio).upper[t]

\* C17: holdings in shares with short sales, buying and selling off pins an
\* unconstrained ticker that holds S >= 0 shares: <= V sets upper to S and
\* leaves lower at -inf, whatever V is, and >= V sets lower to S, so that
\* after both lower = upper = S
C17_Pinned == [][C17_Step]_vars

\* A holds 100 shares; after holdings <= 50 and holdings >= 50 with the flags
\* off both of its bounds are 100
C17_Witness ==
    /\ pop.name = "apply_constraint" /\ pop.outcome = "ok"
    /\ Pinning(The(pop.arg)) /\ The(pop.arg).sign = ">=" /\ The(pop.arg).value = 50
    /\ The(portfolio).lower["A"] = RInt(100)
    /\ The(portfolio).upper["A"] = RInt(100)

(***************************************************************************)
(* _locate_value on a frame whose column is sorted in ascending order.     *)
(* A row is [x, mu]: x is the number of the row, mu the value it holds.    *)
(***************************************************************************)
\* Series.searchsorted with side='right': the number of elements <= value
searchsorted_Right(col, value) ==
    IF \E i \in 1..Len(col) : value < col[i]
    THEN (CHOOSE i \in 1..Len(col) :
             value < col[i] /\ \A j \in 1..(i - 1) : col[j] <= value) - 1
    ELSE Len(col)

\* Series.searchsorted(value), side='left': the index, from 0, of the first
\* element that is not less than value, and len(col) when there is none
searchsorted(col, value) ==
    IF \E i \in 1..Len(col) : value <= col[i]
    THEN (CHOOSE i \in 1..Len(col) :
             value <= col[i] /\ \A j \in 1..(i - 1) : col[j] < value) - 1
    ELSE Len(col)

\* _locate_value that brackets with the two rows after the index found
locate_value_Ahead(value, column, df) ==
    LET index == searchsorted([i \in 1..Len(df) |-> df[i][column]], value)
        n == Len(df)
    IN  IF index = n
        THEN IF n = 0
             THEN [exc |-> "IndexError", left |-> Nothing, right |-> Nothing]
             ELSE [exc |-> "none", left |-> Some(df[n]), right |-> Nothing]
        ELSE IF index = 0
        THEN [exc |-> "none", left |-> Nothing, right |-> Some(df[1])]
        ELSE IF index + 2 <= n
        THEN [exc |-> "none", left |-> Some(df[index + 1]), right |-> Some(df[index + 2])]
        ELSE [exc |-> "none", left |-> Some(df[index]), right |-> Some(df[index + 1])]

\* _locate_value without the branch for index == 0, where iloc[-1] is the
\* last row
locate_value_NoFirstCase(value, column, df) ==
    LET index == searchsorted([i \in 1..Len(df) |-> df[i][column]], value)
        n == Len(df)
    IN  IF n = 0
        THEN [exc |-> "IndexError", left |-> Nothing, right |-> Nothing]
        ELSE IF index = n
        THEN [exc |-> "none", left |-> Some(df[n]), right |-> Nothing]
        ELSE [exc |-> "none",
              left |-> Some(df[IF index = 0 THEN n ELSE index]),
              right |-> Some(df[index + 1])]

\* _locate_value: [exc, left, right]; df.iloc[-1] of a frame without rows
\* raises IndexError
locate_value(value, column, df) ==
    LET index == searchsorted([i \in 1..Len(df) |-> df[i][column]], value)
        n == Len(df)
    IN  IF index = n
        THEN IF n = 0
             THEN [exc |-> "IndexError", left |-> Nothing, right |-> Nothing]
             ELSE [exc |-> "none", left |-> Some(df[n]), right |-> Nothing]
        ELSE IF index = 0
        THEN [exc |-> "none", left |-> Nothing, right |-> Some(df[1])]
        ELSE [exc |-> "none", left |-> Some(df[index]), right |-> Some(df[index + 1])]

\* the sorted columns of at most MaxRows values and the values looked up
ColumnValues == 1..4
LookupValues == 0..5
SortedColumns ==
    {col \in UNION {[1..n -> ColumnValues] : n \in 0..MaxRows} :
        \A i \in 1..(Len(col) - 1) : col[i] <= col[i + 1]}
Frame(col) == [i \in 1..Len(col) |-> [x |-> i, mu |-> col[i]]]

\* a call of _locate_value; its arguments and what it returned are kept in
\* pop.arg
P_LocateValue(col, value) ==
    /\ Sync(Done(Self))
    /\ pop' = POp("_locate_value", "sync",
                  Outcome(locate_value(value, "mu", Frame(col))),
                  Some([df |-> Frame(col), value |-> value,
                        left |-> locate_value(value, "mu", Frame(col)).left,
                        right |-> locate_value(value, "mu", Frame(col)).right]))

NextLocate == \E col \in SortedColumns, value \in LookupValues : P_LocateValue(col, value)

SpecLocate == Init /\ [][NextLocate]_vars

\* _locate_value was called on a frame with rows
Located == pop.name = "_locate_value" /\ The(pop.arg).df # <<>>
LDf == The(pop.arg).df
LValue == The(pop.arg).value
LLeft == The(pop.arg).left
LRight == The(pop.arg).right
FirstRow == LDf[1]
LastRow == LDf[Len(LDf)]

\* the result is the two adjacent rows around the first row that holds v
AdjacentAt(v) ==
    \E i \in 2..Len(LDf) :
        /\ LLeft = Some(LDf[i - 1]) /\ LRight = Some(LDf[i])
        /\ LDf[i - 1].mu < v /\ v <= LDf[i].mu

\* C18, as claimed: at the first row's value _locate_value returns
\* (None, first_row), and at the last row's value (last_row, None)
C18_Boundaries ==
    Located =>
        /\ LValue = FirstRow.mu => LLeft = Nothing /\ LRight = Some(FirstRow)
        /\ LValue = LastRow.mu => LLeft = Some(LastRow) /\ LRight = Nothing

\* C18, amended: at the first row's value _locate_value returns
\* (None, first_row); at the last row's value it returns (None, first_row) too
\* when the first row holds that value, and otherwise the two adjacent rows
\* that end at the first row holding it, never (last_row, None)
C18_BoundariesAmended ==
    Located =>
        /\ LValue = FirstRow.mu => LLeft = Nothing /\ LRight = Some(FirstRow)
        /\ LValue = LastRow.mu /\ LValue # FirstRow.mu
              => AdjacentAt(LValue) /\ LRight # Nothing

\* the value of the last of three rows was looked up and the second and third
\* rows came back
C18_Witness ==
    /\ Located /\ Len(LDf) = 3
    /\ LValue = LastRow.mu /\ LDf[2].mu < LValue
    /\ LLeft = Some(LDf[2]) /\ LRight = Some(LastRow)

\* C19, as claimed: (last_row, None) for a value past the last row's,
\* (None, first_row) for a value before the first row's, and otherwise two
\* adjacent rows (i-1, i) with column[i-1] <= v <= column[i]
C19_Trichotomy ==
    Located =>
        IF LValue > LastRow.mu THEN LLeft = Some(LastRow) /\ LRight = Nothing
        ELSE IF LValue < FirstRow.mu THEN LLeft = Nothing /\ LRight = Some(FirstRow)
        ELSE \E i \in 2..Len(LDf) :
                /\ LLeft = Some(LDf[i - 1]) /\ LRight = Some(LDf[i])
                /\ LDf[i - 1].mu <= LValue /\ LValue <= LDf[i].mu

\* C19, amended: (last_row, None) for a value past the last row's,
\* (None, first_row) for a value before or at the first row's, and otherwise
\* two adjacent rows (i-1, i) with column[i-1] < v <= column[i]
C19_TrichotomyAmended ==
    Located =>
        IF LValue > LastRow.mu THEN LLeft = Some(LastRow) /\ LRight = Nothing
        ELSE IF LValue <= FirstRow.mu THEN LLeft = Nothing /\ LRight = Some(FirstRow)
        ELSE AdjacentAt(LValue)

\* a value strictly between the values of two adjacent rows was looked up
C19_Witness ==
    /\ Located /\ LLeft # Nothing /\ LRight # Nothing
    /\ The(LLeft).mu < LValue /\ LValue < The(LRight).mu
    /\ The(LRight).x = The(LLeft).x + 1

(***************************************************************************)
(* retrieve_recommendation for a given mu, on a frontier as the solver     *)
(* gave it: the mu of a row is then the number the solver answered.        *)
(***************************************************************************)
\* the frame _locate_value searches, the column mu as numbers
MuFrame(rows) ==
    [i \in 1..Len(rows) |-> [x |-> rows[i].x, mu |-> rows[i].mu.given, std |-> rows[i].std]]

\* (1 - eta) * lo + eta * hi of two risks, as a term
Mix(eta, lo, hi) == [eta |-> eta, lo |-> lo, hi |-> hi]

\* retrieve_recommendation, 'approximate', with the bracket answered by its
\* left row
approximate_LeftRow(s, mu) ==
    IF ~has_frontier(s) THEN [exc |-> "AssertionError", rec |-> Nothing]
    ELSE LET l == locate_value(mu, "mu", MuFrame(The(s.frontier)))
         IN  IF l.exc # "none" THEN [exc |-> l.exc, rec |-> Nothing]
             ELSE IF l.left = Nothing
             THEN [exc |-> "none",
                   rec |-> Some([x |-> RInt(The(l.right).x), status |-> "optimal",
                                 std |-> Mix(ROne, The(l.right).std, The(l.right).std),
                                 mu |-> mu])]
             ELSE [exc |-> "none",
                   rec |-> Some([x |-> RInt(The(l.left).x), status |-> "optimal",
                                 std |-> Mix(RZero, The(l.left).std, The(l.left).std),
                                 mu |-> mu])]

\* retrieve_recommendation with method 'approximate': [exc, rec]
approximate(s, mu) ==
    IF ~has_frontier(s) THEN [exc |-> "AssertionError", rec |-> Nothing]
    ELSE LET l == locate_value(mu, "mu", MuFrame(The(s.frontier)))
         IN  IF l.exc # "none" THEN [exc |-> l.exc, rec |-> Nothing]
             ELSE IF l.left = Nothing
             THEN [exc |-> "none",
                   rec |-> Some([x |-> RInt(The(l.right).x), status |-> "optimal",
                                 std |-> Mix(ROne, The(l.right).std, The(l.right).std),
                                 mu |-> mu])]
             ELSE IF l.right = Nothing
             THEN [exc |-> "none",
                   rec |-> Some([x |-> RInt(The(l.left).x), status |-> "optimal",
                                 std |-> Mix(RZero, The(l.left).std, The(l.left).std),
                                 mu |-> mu])]
             ELSE LET mu1 == The(l.left).mu
                      mu2 == The(l.right).mu
                      eta == Rat(mu - mu1, mu2 - mu1)
                  IN  [exc |-> "none",
                       rec |-> Some([x |-> RAdd(RMul(RSub(ROne, eta), RInt(The(l.left).x)),
                                                RMul(eta, RInt(The(l.right).x))),
                                     status |-> "optimal",
                                     std |-> Mix(eta, The(l.left).std, The(l.right).std),
                                     mu |-> mu])]

\* retrieve_recommendation with method 'exact', from the solver's answer on
ResumeRecommendation(s, mu, recs) ==
    IF recs.error THEN [exc |-> "ClientError", rec |-> Nothing]
    ELSE IF recs.status = "optimal"
    THEN LET g == get_model(s)
         IN  IF g.exc # "none" THEN [exc |-> g.exc, rec |-> Nothing]
             ELSE [exc |-> "none",
                   rec |-> Some([x |-> RInt(recs.x), status |-> recs.status,
                                 std |-> return_and_variance(recs.x, The(g.model)).std,
                                 mu |-> mu])]
    ELSE approximate(s, mu)

\* the target returns asked for and the answers of the solver to the
\* follow-up call
TargetMus == {0, 2, 3, 4}
RecMethods == {"approximate", "exact"}
RecResponses ==
    {[error |-> TRUE, status |-> "none", x |-> 0],
     [error |-> FALSE, status |-> "optimal", x |-> 7],
     [error |-> FALSE, status |-> "infeasible", x |-> 0]}
RecFrontierResponses ==
    {Answer(sts) : sts \in {<<"infeasible">>, <<"optimal">>,
                            <<"optimal", "infeasible", "optimal">>}}

\* retrieve_recommendation up to its await, or to its end
P_RetrieveRecommendationCall(mu, method) ==
    /\ Idle("retrieve_recommendation")
    /\ IF ~has_frontier(Self)
       THEN /\ Sync(Done(Self))
            /\ pop' = POp("retrieve_recommendation", "call", "AssertionError", {})
       ELSE IF method = "approximate"
       THEN /\ Sync(Done(Self))
            /\ pop' = POp("retrieve_recommendation", "sync",
                          IF approximate(Self, mu).exc = "none" THEN "ok"
                          ELSE approximate(Self, mu).exc,
                          Some([mu |-> mu, rec |-> approximate(Self, mu).rec]))
       ELSE /\ Await("retrieve_recommendation",
                     [mu |-> mu, data |-> [params |-> frontier_query_params, mu |-> mu]])
            /\ pop' = POp("retrieve_recommendation", "call", "awaiting",
                          Some([mu |-> mu,
                                data |-> [params |-> frontier_query_params, mu |-> mu]]))

\* retrieve_recommendation from the answer of the solver on
P_RetrieveRecommendationReturn(recs) ==
    /\ ~Idle("retrieve_recommendation")
    /\ \E l \in pending["retrieve_recommendation"] :
       \E r \in {ResumeRecommendation(Self, l.mu, recs)} :
           /\ Resume("retrieve_recommendation", [self |-> Self, exc |-> r.exc])
           /\ pop' = POp("retrieve_recommendation", "resume",
                         IF r.exc = "none" THEN "ok" ELSE r.exc,
                         Some([mu |-> l.mu, recs |-> recs, rec |-> r.rec]))

NextRecommend ==
    \/ P_ImportCsv(TRUE)
    \/ P_RetrieveModelsCall(TRUE, EmptyDict)
    \/ \E resp \in ModelResponses : P_RetrieveModelsReturn(resp)
    \/ \E cashflow \in Cashflows : P_RetrieveFrontierCall(cashflow)
    \/ \E resp \in RecFrontierResponses : P_RetrieveFrontierReturn(resp)
    \/ P_InvalidateFrontier
    \/ \E mu \in TargetMus, method \in RecMethods : P_RetrieveRecommendationCall(mu, method)
    \/ \E recs \in RecResponses : P_RetrieveRecommendationReturn(recs)

SpecRecommend == Init /\ [][NextRecommend]_vars

\* the step sends the follow-up call of the exact method
ExactCalled(p) ==
    p.name = "retrieve_recommendation" /\ p.phase = "call" /\ p.outcome = "awaiting"

\* the step is the answer to the follow-up call, with no operation in between
ExactAnswered ==
    /\ ExactCalled(pop)
    /\ pop'.name = "retrieve_recommendation" /\ pop'.phase = "resume"
    /\ ~The(pop'.arg).recs.error

C20_Step ==
    /\ ExactCalled(pop') =>
          /\ The(pop'.arg).data = [params |-> frontier_query_params, mu |-> The(pop'.arg).mu]
          /\ pending'["retrieve_recommendation"] # Nothing
    /\ ExactAnswered =>
          /\ pending' = [op \in AsyncOps |-> Nothing]
          /\ pop'.outcome = "ok"
          /\ IF The(pop'.arg).recs.status = "optimal"
             THEN The(The(pop'.arg).rec).x = RInt(The(pop'.arg).recs.x)
             ELSE /\ approximate(Self, The(pop'.arg).mu).exc = "none"
                  /\ The(pop'.arg).rec = approximate(Self, The(pop'.arg).mu).rec

\* C20: retrieve_recommendation with method 'exact' sends exactly one follow-up
\* call, built from the stored query of the frontier and the target mu; on the
\* status 'optimal' it returns the allocation of the solver, and on any other
\* status it raises no error, sends no further call and returns what the
\* approximate method returns for the same mu
C20_ExactFallsBack == [][C20_Step]_vars

(***************************************************************************)
(* The table: import_csv of several files, the prices and get_value.       *)
(***************************************************************************)
P_ImportCsvFile(file) ==
    /\ Sync(import_csv_file(Self, file))
    /\ pop' = POp("import_csv", "sync", Outcome(import_csv_file(Self, file)), Some(file))

\* a call of get_value; what it returned is kept in pop.arg
P_GetValue ==
    /\ Sync(Done(Self))
    /\ pop' = POp("get_value", "sync", "ok", Some(get_value(Self)))

NextTable ==
    \/ \E file \in CsvFiles : P_ImportCsvFile(file)
    \/ P_GetValue
    \/ P_RetrievePricesCall
    \/ \E error \in BOOLEAN : P_RetrievePricesReturn(error)
    \/ \E include_prices \in BOOLEAN : P_RetrieveModelsCall(include_prices, EmptyDict)
    \/ \E resp \in ModelResponses : P_RetrieveModelsReturn(resp)
    \/ \E cashflow \in Cashflows : P_RetrieveFrontierCall(cashflow)
    \/ \E resp \in Responses : P_RetrieveFrontierReturn(resp)

SpecTable == Init /\ [][NextTable]_vars

C21_Step ==
    pop'.name = "import_csv" /\ pop'.outcome = "ok" /\ pop'.arg # {} =>
        LET file == The(pop'.arg)
            p == The(portfolio')
        IN  /\ p.columns = {"shares", "lower", "upper"}
            /\ p.index = file.tickers
            /\ DOMAIN p.shares = Range(file.tickers)
            /\ DOMAIN p.lower = Range(file.tickers)
            /\ DOMAIN p.upper = Range(file.tickers)
            /\ \A t \in Range(file.tickers) :
                  /\ p.lower[t] = NegInf /\ p.upper[t] = PosInf
                  /\ p.shares[t] = IF "shares" \in file.columns THEN file.shares[t]
                                   ELSE RZero
            /\ ~has_prices(Self') /\ ~has_models(Self') /\ ~has_frontier(Self')
            /\ get_value(Self') = RZero

\* C21: after import_csv succeeds, whatever the state before, the table has
\* exactly the columns shares, lower and upper, keyed by the tickers in the
\* order of the file, lower = -inf and upper = +inf for every ticker, shares = 0
\* when the file has no shares column; has_prices, has_models and has_frontier
\* are false and get_value returns 0.0
C21_ImportResets == [][C21_Step]_vars

\* a file without a shares column was imported over a Portfolio that held a
\* frontier
C21_Witness ==
    /\ pop.name = "import_csv" /\ pop.outcome = "ok" /\ pop.had
    /\ pop.arg # {} /\ "shares" \notin The(pop.arg).columns
    /\ The(portfolio).index = <<"B", "A">>
    /\ The(portfolio).shares = [t \in Tickers |-> RZero]

\* the step is an apply_constraint call, returned or raised
Called == pop'.name = "apply_constraint" /\ pop'.arg # {}

C22_Step ==
    Called =>
        LET c == The(pop'.arg)
        IN  /\ portfolio = Nothing => portfolio' = Nothing
            /\ portfolio # Nothing =>
                  /\ portfolio' # Nothing
                  /\ LET p == The(portfolio)
                         q == The(portfolio')
                     IN  /\ q.columns = p.columns /\ q.index = p.index
                         /\ q.shares = p.shares /\ q.close = p.close
                         /\ q.value = p.value /\ q.percent = p.percent
                         /\ q.lower = p.lower \/ q.upper = p.upper
                         /\ c.sign = "<=" /\ c.function \in {"sales", "short sales"}
                               => q.upper = p.upper
                         /\ c.sign = "<=" /\ c.function \in {"purchases", "holdings"}
                               => q.lower = p.lower
                         /\ \A t \in DOMAIN p.lower \ Range(c.tickers) :
                               q.lower[t] = p.lower[t] /\ q.upper[t] = p.upper[t]
                         /\ c.tickers = <<>> => q = p

\* C22: one apply_constraint call changes at most one of the two bound columns
\* (with the sign <=: sales and short sales only lower, purchases and holdings
\* only upper), only for the listed tickers; it never changes shares, prices
\* or the bounds of the tickers not listed, and with an empty list it changes
\* nothing
C22_OneBoundOfListed == [][C22_Step]_vars

\* purchases <= on ticker A alone set its upper bound, while B keeps the
\* lower bound of an earlier call and no upper bound
C22_Witness ==
    /\ pop.name = "apply_constraint" /\ pop.outcome = "ok"
    /\ The(pop.arg).tickers = <<"A">> /\ The(pop.arg).function = "purchases"
    /\ The(pop.arg).sign = "<="
    /\ The(portfolio).upper["A"] # PosInf /\ The(portfolio).upper["B"] = PosInf
    /\ The(portfolio).lower["B"] # NegInf

(***************************************************************************)
(* The models a Portfolio owns.  m1 is the caller's object, a Model or a   *)
(* dict of arrays; m2 is self.models[rg] of a Portfolio p built from it,   *)
(* m3 the same of a second Portfolio q, m4 what p.get_model() returned.    *)
(***************************************************************************)
Kinds == {"Model", "dict"}

\* the object of the caller can be taken for a dict: one of D and Di, no std
DictLike(m) == m["_std"] = None /\ (m["_D"] = None) # (m["_Di"] = None)

\* self.models[rg] = data: the object of the caller itself is stored
ModelOf_Same(st, src, kind) == [st EXCEPT !.m = src]

\* Model(data) in set_models, data being the object src of the caller
ModelOf(st, src, kind) ==
    IF kind = "Model" THEN CopyAttrs(st, src, Len(AttrOrder))
    ELSE FromDict(st, [r |-> st.heap[src["r"]], F |-> st.heap[src["F"]],
                       Q |-> st.heap[src["Q"]]],
                  IF src["_Di"] # None THEN {"Di"} ELSE {"D"},
                  st.heap[src[IF src["_Di"] # None THEN "_Di" ELSE "_D"]])

\* get_model of a Portfolio with the one sub-model of store s2 and weight 1.0,
\* linear: the sums weight * getattr(model, attr) are new arrays, of which
\* Model(dict) takes a copy; sm is the sub-model after D was read, m the
\* Model returned
GetModelOf(s2) ==
    LET sub == GetD(s2)
        new == FromDict([heap |-> sub.heap, m |-> NoModel, n |-> 0],
                        [r |-> VecScale(ROne, sub.heap[sub.m["r"]]),
                         F |-> sub.heap[sub.m["F"]],
                         Q |-> VecScale(ROne, sub.heap[sub.m["Q"]])],
                        {"D"}, sub.heap[sub.m["_D"]])
    IN  [heap |-> new.heap, sm |-> sub.m, m |-> new.m]

\* p.set_models({rg: m1}) for the Portfolio whose sub-model is dst
O_SetModels(dst, kind) ==
    /\ Live("m1") /\ ~Live(dst)
    /\ kind = "dict" => DictLike(mdl["m1"])
    /\ Commit(dst, ModelOf(Store(dst), mdl["m1"], kind))
    /\ origin' = [origin EXCEPT ![dst] = kind]
    /\ mop' = MOp("set_models", dst, "ok", FALSE, {kind})
    /\ ret' = [id |-> None, d |-> NoDict]
    /\ UNCHANGED <<nnorm, pvars, cvars>>

\* m4 = p.get_model()
O_GetModel ==
    /\ Live("m2") /\ ~Live("m4")
    /\ nsteps < MaxCopySteps
    /\ \E g \in {GetModelOf(Store("m2"))} :
          /\ mdl' = [mdl EXCEPT !["m2"] = g.sm, !["m4"] = g.m]
          /\ heap' = [i \in ObjIds |-> IF i \in Referenced(mdl') THEN g.heap[i] ELSE Free]
    /\ nsteps' = nsteps + 1
    /\ ncomp' = 0
    /\ origin' = [origin EXCEPT !["m4"] = "get_model"]
    /\ mop' = MOp("get_model", "m4", "ok", FALSE, {})
    /\ ret' = [id |-> None, d |-> NoDict]
    /\ UNCHANGED <<nnorm, pvars, cvars>>

\* the objects that are not the sub-model of p
Outside == {"m1", "m3", "m4"}

NextOwn ==
    \/ \E base \in BaseVals, keys \in {{"D"}, {"Di"}} :
          M_New("m1", base, keys, IntMat(<<<<2, 1>>, <<1, 1>>>>))
    \/ M_Read("m1", "std")
    \/ \E dst \in {"m2", "m3"}, kind \in Kinds : O_SetModels(dst, kind)
    \/ O_GetModel
    \/ \E h \in Outside : Live("m2") /\ M_AssignD(h, IntMat(<<<<1, 1>>, <<0, 1>>>>))
    \/ \E h \in Outside : Live("m2") /\ M_ToDict(h, <<"r", "Q", "D", "F">>, FALSE, TRUE)

SpecOwn == Init /\ [][NextOwn]_vars

\* no array is held by two of the four objects
NoSharedArray ==
    \A h1, h2 \in Handles : \A a, b \in Attrs :
        (h1 # h2 /\ mdl[h1][a] # None) => mdl[h1][a] # mdl[h2][b]

\* an assignment to, or an in-place division of, an object outside p
Mutation == mop'.name \in {"set", "to_dict"} /\ mop'.h \in Outside

C23_Step ==
    (Mutation /\ Live("m2")) =>
        \A a \in Attrs :
            /\ mdl'["m2"][a] = mdl["m2"][a]
            /\ mdl["m2"][a] # None => heap'[mdl["m2"][a]] = heap[mdl["m2"][a]]

\* C23: set_models stores a copy of every model supplied, dict or Model, so
\* the stored model shares no array with the caller's object, with the model
\* of another Portfolio built from the same object or with the Model that
\* get_model returns, and no later mutation of one of those changes it
C23_ModelsOwned == []NoSharedArray /\ [][C23_Step]_vars

\* p and q were built from the same object, which was then divided in place:
\* the model stored in p kept its Q
C23_Witness ==
    /\ Live("m2") /\ Live("m3")
    /\ mop.name = "to_dict" /\ mop.h = "m1" /\ mop.hit
    /\ heap[mdl["m1"]["Q"]] # heap[mdl["m2"]["Q"]]
    /\ heap[mdl["m3"]["Q"]] = heap[mdl["m2"]["Q"]]

\* the step is a price retrieval that returned: retrieve_prices, or
\* retrieve_models called with include_prices
PricesRetrieved ==
    /\ pop'.phase = "resume" /\ pop'.outcome = "ok"
    /\ \/ pop'.name = "retrieve_prices"
       \/ /\ pop'.name = "retrieve_models"
          /\ \E l \in pending["retrieve_models"] : l.include_prices

\* the step is a retrieve_models without include_prices that returned
ModelsOnlyRetrieved ==
    /\ pop'.phase = "resume" /\ pop'.name = "retrieve_models"
    /\ \E l \in pending["retrieve_models"] : ~l.include_prices

\* x is a number, neither NaN nor an infinity
IsNumber(x) == x[2] # 0

C24_Step ==
    /\ PricesRetrieved =>
          LET p == The(portfolio')
              index == Range(p.index)
              total == RSumOf(p.value, index)
          IN  /\ has_prices(Self')
              /\ \A t \in index : p.value[t] = RMul(p.shares[t], p.close[t])
              /\ get_value(Self') = total
              /\ \A t \in index : IsNumber(p.percent[t])
              /\ \A t \in index : p.percent[t] = RDiv(p.value[t], total)
              /\ RSumOf(p.percent, index) = ROne
    /\ ModelsOnlyRetrieved => has_prices(Self') = has_prices(Self)
    /\ ~has_prices(Self) => get_value(Self) = RZero

\* C24: after prices are retrieved (retrieve_prices, or retrieve_models with
\* include_prices) has_prices is true, each value ($) is shares times close,
\* each value (%) is value ($) over the total, the value (%) sum to 1 and
\* get_value returns the total; before any price retrieval get_value returns
\* 0.0, and retrieve_models without include_prices leaves has_prices as it was
C24_PricesValued == [][C24_Step]_vars

(***************************************************************************)
(* The operations of a Client                                              *)
(***************************************************************************)
Statuses == {200, 400, 404, 422, 500}
Details == {Nothing, Some(""), Some("bad input")}

\* what the entry point answers: a parsed JSON body when ok, a detail otherwise
CallResponses ==
    {NoResponse}
        \cup {[status |-> 200, detail |-> Nothing, body |-> b] : b \in {1, 2}}
        \cup {[status |-> st, detail |-> d, body |-> 0] : st \in Statuses \ {200}, d \in Details}

\* what get_token is answered
TokenResponses ==
    {NoResponse, [status |-> 200, detail |-> Nothing, body |-> "t1"],
     [status |-> 401, detail |-> Some("bad credentials"), body |-> 0]}

\* c = Client(username, password, token, auto_token_renewal)
C_New(token, auto_token_renewal) ==
    /\ client' = NewClient(token, auto_token_renewal)
    /\ cop' = COp("init", "none", Nothing, Nothing, NoResponse)
    /\ UNCHANGED <<mvars, nsteps, pvars>>

\* c.get_token()
C_GetToken(tr) ==
    /\ client' = get_token(client, tr).self
    /\ cop' = COp("get_token", get_token(client, tr).exc, Nothing, Nothing, NoResponse)
    /\ UNCHANGED <<mvars, nsteps, pvars>>

\* c.call(entry_point, data); cop.response is the answer of the entry point,
\* NoResponse when none was received
C_Call(tr, r) ==
    /\ \E res \in {call(client, tr, r)} :
          /\ client' = res.self
          /\ cop' = COp("call", res.exc, res.msg, res.ret,
                        IF res.exc \in {"none", "PyOptimumException", "HTTPError"}
                           /\ res.msg # Some("No token available")
                           /\ ~(client.auto_token_renewal /\ get_token(client, tr).exc # "none")
                        THEN r ELSE NoResponse)
    /\ UNCHANGED <<mvars, nsteps, pvars>>

NextClient ==
    \/ \E token \in {Nothing, Some("t0")}, auto \in BOOLEAN : C_New(token, auto)
    \/ \E tr \in TokenResponses : C_GetToken(tr)
    \/ \E tr \in TokenResponses, r \in CallResponses : C_Call(tr, r)

SpecClient == Init /\ [][NextClient]_vars

\* the entry point answered the call with r
Answered(r) == cop'.name = "call" /\ cop'.response = r /\ r # NoResponse

C25_Step ==
    /\ \A r \in CallResponses :
          Answered(r) =>
             /\ Ok(r) => /\ cop'.outcome = "none" /\ cop'.ret = Some(r.body)
                         /\ client'.detail = Nothing
             /\ (r.status \in 400..499 /\ r.detail \notin {Nothing, Some("")}) =>
                   /\ cop'.outcome = "PyOptimumException"
                   /\ cop'.msg = r.detail /\ client'.detail = r.detail
             /\ r.status >= 500 => cop'.outcome = "HTTPError"
    /\ (cop'.name = "call" /\ cop'.outcome = "none") => client'.detail = Nothing

\* C25: Client.call returns the parsed JSON on success, and then Client.detail
\* is None; on every failure of the 400 class it raises PyOptimumException
\* with the detail message the server supplied, which is also stored in
\* Client.detail; every other failure propagates as a transport or server error
C25_CallErrors == [][C25_Step]_vars

(***************************************************************************)
(* to_dict as an export                                                    *)
(***************************************************************************)
\* the fields argument of the to_dict call recorded in op
FieldsOf(op) == CHOOSE fields \in FieldChoices : Range(fields) = op.arg

\* the values of the dictionary d
Values(d) == [f \in DOMAIN d |-> d[f].val]

C26_Step ==
    mop'.name = "to_dict" =>
        LET h == mop'.h
        IN  /\ \A a \in {"r", "F", "Q", "_D", "_Di"} :
                  mdl[h][a] # None =>
                      /\ mdl'[h][a] = mdl[h][a]
                      /\ heap'[mdl[h][a]] = heap[mdl[h][a]]
            /\ mdl'[h]["_std"] # None =>
                  heap'[mdl'[h]["_std"]] =
                      StdOf(heap'[mdl'[h]["Q"]], heap'[mdl'[h]["F"]], heap'[mdl'[h]["_D"]])
            /\ \A as_list \in BOOLEAN :
                  Values(ToDict([heap |-> heap', m |-> mdl'[h], n |-> 0],
                                FieldsOf(mop'), as_list, mop'.hit).d) = Values(ret'.d)

\* C26: to_dict is a pure export: for every fields, as_list and normalize it
\* leaves r, F, Q, D and Di as they were, so the cached std stays the std of Q,
\* F and D, and the same call made again returns the same values
C26_ToDictPure == [][C26_Step]_vars

(***************************************************************************)
(* The trading-mode clamps, each flag on its own, on a table with a short  *)
(* position.                                                               *)
(***************************************************************************)
ShortCsv ==
    [columns |-> {"ticker", "shares"}, tickers |-> <<"A", "B">>,
     shares |-> [t \in Tickers |-> IF t = "A" THEN RInt(-10) ELSE RInt(100)]]

ClampArgs ==
    {[tickers |-> <<"A", "B">>, function |-> f, sign |-> sg, value |-> 50,
      unit |-> "shares", short_sales |-> ss, buy |-> b, sell |-> sl] :
        f \in {"holdings", "short sales"}, sg \in ConstraintSigns,
        ss \in BOOLEAN, b \in BOOLEAN, sl \in BOOLEAN}

NextClamps ==
    \/ P_ImportCsvFile(ShortCsv)
    \/ \E c \in ClampArgs : P_ApplyConstraint(c)
    \/ P_RemoveConstraints(<<"A", "B">>)

SpecClamps == Init /\ [][NextClamps]_vars

\* the bound b after the three clamps, in the order short_sales, buy, sell
Clamped(c, S, b) ==
    LET e1 == IF ~c.short_sales /\ RLt(b, RZero) THEN RZero ELSE b
        e2 == IF ~c.buy /\ RLt(S, e1) THEN S ELSE e1
        e3 == IF ~c.sell /\ RLt(e2, S) THEN S ELSE e2
    IN  e3

C27_Step ==
    Applied =>
        LET c == The(pop'.arg)
            p == The(portfolio)
            q == The(portfolio')
        IN  \A t \in Range(c.tickers) :
               LET S == p.shares[t]
                   b == Bound(c, S, ValueInShares(c, p, t))
               IN  /\ b.lb # Nothing =>
                        /\ q.lower[t] = XMax(p.lower[t], Clamped(c, S, The(b.lb)))
                        /\ (~c.buy /\ ~c.sell) => Clamped(c, S, The(b.lb)) = S
                   /\ b.ub # Nothing =>
                        /\ q.upper[t] = XMin(p.upper[t], Clamped(c, S, The(b.ub)))
                        /\ (~c.buy /\ ~c.sell) => Clamped(c, S, The(b.ub)) = S

\* C27: the clamps are applied in the order short_sales, buy, sell, before the
\* bound is merged into the table: without short sales a bound below 0 becomes
\* 0, without buys a bound above the shares S becomes S, without sells a bound
\* below S becomes S; with buys and sells both off every computed bound is S
C27_ClampOrder == [][C27_Step]_vars

\* holdings <= 50 without short sales and without buys on a short position of
\* -10 shares: the bound 50 is brought down to -10
C27_Witness ==
    /\ pop.name = "apply_constraint" /\ pop.outcome = "ok"
    /\ ~The(pop.arg).short_sales /\ ~The(pop.arg).buy /\ The(pop.arg).sell
    /\ The(pop.arg).function = "holdings" /\ The(pop.arg).sign = "<="
    /\ The(portfolio).shares["A"] = RInt(-10)
    /\ The(portfolio).upper["A"] = RInt(-10)
    /\ The(portfolio).upper["B"] = RInt(50)

(***************************************************************************)
(* The frontier, its stored query and its tag                              *)
(***************************************************************************)
\* the Model that the std of a frontier row was computed with
ModelOfStd(row) == The(row.std.rv)[2]

\* C28: whenever the tag is 'optimal', the std of every row of the frontier
\* was computed with the combined model that was sent in the stored query, also
\* when set_models, set_models_weights or set_model_method ran while
\* retrieve_frontier was waiting for the solver
C28_StdOfQueryModel ==
    frontier_method = "optimal" =>
        /\ frontier # Nothing /\ frontier_query_params # Nothing
        /\ \A i \in 1..Len(The(frontier)) :
              ModelOfStd(The(frontier)[i]) = The(frontier_query_params).model

\* C29: in every reachable state the tag is 'none' exactly when no frontier is
\* held (has_frontier is false), and exactly when the stored query parameters
\* are empty
C29_TagFrontierParams ==
    /\ (frontier_method = "none") = ~has_frontier(Self)
    /\ ~has_frontier(Self) = (frontier_query_params = Nothing)

\* the weights were set again on a solved frontier: the frontier and its
\* query are kept under the tag 'approximate'
C29_Witness ==
    /\ pop.name = "set_models_weights" /\ pop.outcome = "ok"
    /\ frontier_method = "approximate"
    /\ frontier # Nothing /\ Len(The(frontier)) > 0
    /\ frontier_query_params # Nothing

\* C30: in every state reachable through import_csv, set_models,
\* retrieve_models, invalidate_model, invalidate_frontier, retrieve_prices,
\* retrieve_frontier and set_models_weights, a frontier is held only while
\* models and prices are held
C30_FrontierNeedsModelsAndPrices ==
    has_frontier(Self) => has_models(Self) /\ has_prices(Self)

(***************************************************************************)
(* The models and their weights                                            *)
(***************************************************************************)
\* C31: in every reachable state, also after a set_models or set_models_weights
\* call that failed its checks, the stored weights have exactly the keys of
\* the stored models
C31_WeightsMatchModels == Keys(model_weights) = Keys(models)

\* the step is a set_models_weights call on a Portfolio that holds a frontier
WeightsSetOnFrontier == pop'.name = "set_models_weights" /\ frontier # Nothing

C32_Step ==
    WeightsSetOnFrontier =>
        /\ pending' = pending
        /\ frontier' # Nothing
        /\ frontier_query_params' = frontier_query_params
        /\ LET old == The(frontier)
               new == The(frontier')
           IN  /\ Len(new) = Len(old)
               /\ \A i \in 1..Len(old) : new[i].x = old[i].x
               /\ pop'.outcome = "ok" =>
                     \A i \in 1..Len(old) :
                        /\ new[i].mu = return_and_variance(old[i].x, Combined(Self')).mu
                        /\ new[i].std = return_and_variance(old[i].x, Combined(Self')).std

\* C32: set_models_weights called while a frontier is present makes no solver
\* call, keeps the number and the order of the rows, the x of every row and
\* the stored query, and replaces the mu and std of every row by
\* return_and_variance(x, the new combined model)
C32_WeightsReevaluate == [][C32_Step]_vars

\* the weights were changed on a solved frontier with a row: its mu and std
\* are now those of a model other than the one of the stored query
C32_Witness ==
    /\ pop.name = "set_models_weights" /\ pop.outcome = "ok" /\ pop.had
    /\ frontier # Nothing /\ Len(The(frontier)) > 0
    /\ The(frontier)[1].mu.rv = Some(<<The(frontier)[1].x, Combined(Self)>>)
    /\ Combined(Self) # The(frontier_query_params).model

\* C33: a set_models or a retrieve_models that succeeded leaves no frontier,
\* the tag 'none' and an empty stored query, whether or not a frontier was
\* held before and whatever its tag was
C33_NewModelsInvalidate ==
    (pop.name \in {"set_models", "retrieve_models"} /\ pop.outcome = "ok") =>
        /\ ~has_frontier(Self)
        /\ frontier_method = "none"
        /\ frontier_query_params = Nothing

\* retrieve_models returned on a Portfolio that held a frontier
C33_Witness ==
    /\ pop.name = "retrieve_models" /\ pop.phase = "resume" /\ pop.outcome = "ok"
    /\ pop.had /\ frontier = Nothing /\ has_models(Self)

(***************************************************************************)
(* The approximate recommendation                                          *)
(***************************************************************************)
\* the step is a retrieve_recommendation(mu, 'approximate') on a frontier
ApproximateCalled ==
    /\ pop'.name = "retrieve_recommendation" /\ pop'.phase = "sync"
    /\ frontier # Nothing

\* the risk (1 - eta) * lo + eta * hi where it is the risk of one row
RiskOf(m) ==
    IF m.eta = ROne \/ m.lo = m.hi THEN m.hi ELSE IF m.eta = RZero THEN m.lo ELSE m

C34_Step ==
    ApproximateCalled =>
        /\ pending' = pending
        /\ frontier' = frontier
        /\ frontier_method' = frontier_method
        /\ frontier_query_params' = frontier_query_params
        /\ LET rows == MuFrame(The(frontier))
               n == Len(rows)
               mu == The(pop'.arg).mu
           IN  n >= 1 =>
                 /\ pop'.outcome = "ok"
                 /\ LET rec == The(The(pop'.arg).rec)
                    IN  /\ mu < rows[1].mu =>
                              rec.x = RInt(rows[1].x) /\ RiskOf(rec.std) = rows[1].std
                        /\ mu > rows[n].mu =>
                              rec.x = RInt(rows[n].x) /\ RiskOf(rec.std) = rows[n].std
                        /\ \A i \in 1..(n - 1) :
                              (rows[i].mu <= mu /\ mu <= rows[i + 1].mu) =>
                                 LET eta == Rat(mu - rows[i].mu, rows[i + 1].mu - rows[i].mu)
                                 IN  /\ rec.x = RAdd(RMul(RSub(ROne, eta), RInt(rows[i].x)),
                                                     RMul(eta, RInt(rows[i + 1].x)))
                                     /\ RiskOf(rec.std) =
                                           RiskOf([eta |-> eta, lo |-> rows[i].std,
                                                   hi |-> rows[i + 1].std])

\* C34: the approximate recommendation for a target mu makes no solver call
\* and leaves the frontier, its tag and the stored query as they were; between
\* two rows that bracket mu it returns x = (1 - eta) x1 + eta x2 and
\* std = (1 - eta) std1 + eta std2 with eta = (mu - mu1) / (mu2 - mu1), before
\* the first row the x and std of the first row, past the last row those of
\* the last row
C34_Approximate == [][C34_Step]_vars

\* mu = 2 was asked for on a frontier with the rows mu = 1 and mu = 3: the
\* answer is half way between them
C34_Witness ==
    /\ pop.name = "retrieve_recommendation" /\ pop.phase = "sync" /\ pop.outcome = "ok"
    /\ frontier # Nothing /\ Len(The(frontier)) = 2
    /\ The(pop.arg).mu = 2
    /\ The(The(pop.arg).rec).x = RInt(2)
    /\ The(The(pop.arg).rec).std.eta = Rat(1, 2)

(***************************************************************************)
(* The interpolation branch of retrieve_recommendation                     *)
(***************************************************************************)
\* _locate_value returned two rows: retrieve_recommendation interpolates
Interpolates == Located /\ LLeft # Nothing /\ LRight # Nothing

\* eta = (v - v1) / (v2 - v1) as retrieve_recommendation computes it
Eta == FDiv(RInt(LValue - The(LLeft).mu), RInt(The(LRight).mu - The(LLeft).mu))

\* C35: whenever retrieve_recommendation interpolates on a column sorted
\* ascending, the two rows satisfy left < v <= right on that column, so the
\* denominator is strictly positive and eta lies in (0, 1]; no division by
\* zero is reachable, also when the column holds equal consecutive values
C35_NoZeroDenominator ==
    Interpolates =>
        /\ The(LLeft).mu < LValue /\ LValue <= The(LRight).mu
        /\ The(LRight).mu - The(LLeft).mu > 0
        /\ Eta # NaN /\ Eta[2] # 0
        /\ RLt(RZero, Eta) /\ RLe(Eta, ROne)

\* the value held by the last two of three rows was looked up: the bracket is
\* the first and the second row, and eta is 1
C35_Witness ==
    /\ Interpolates /\ Len(LDf) = 3
    /\ LDf[2].mu = LDf[3].mu /\ LValue = LDf[2].mu
    /\ LLeft = Some(LDf[1]) /\ LRight = Some(LDf[2])
    /\ Eta = ROne

(***************************************************************************)
(* The solver query: what _get_portfolio_query adds to the model data      *)
(***************************************************************************)
IsFinite(b) == b[2] # 0

\* bound * close / value of numpy floats, for a bound that may be infinite
Scaled(b, close, value) ==
    IF IsFinite(b) THEN FDiv(RMul(b, close), value)
    ELSE IF RLt(value, RZero) THEN <<-b[1], 0>> ELSE b

\* the query with xlo and xup always sent
query_data_AllBounds(s, cashflow, max_sales, rho) ==
    LET p == The(s.portfolio)
        n == Len(p.index)
        value0 == RSumOf(p.value, Range(p.index))
        value == RAdd(value0, RInt(cashflow))
    IN  [model |-> Combined(s),
         x0 |-> [i \in 1..n |-> p.percent[p.index[i]]],
         cashflow |-> FDiv(RInt(cashflow), value0),
         constraints |-> <<[label |-> "sales", function |-> "sales",
                            bounds |-> FDiv(RInt(max_sales), value0)]>>]
        @@ (IF rho > 0 THEN [rho |-> rho] ELSE EmptyDict)
        @@ [xlo |-> [i \in 1..n |-> Scaled(p.lower[p.index[i]], p.close[p.index[i]], value)]]
        @@ [xup |-> [i \in 1..n |-> Scaled(p.upper[p.index[i]], p.close[p.index[i]], value)]]

\* _get_portfolio_query after get_model: the dict returned, the model data
\* kept as the Model they come from
query_data(s, cashflow, max_sales, rho) ==
    LET p == The(s.portfolio)
        n == Len(p.index)
        value0 == RSumOf(p.value, Range(p.index))
        value == RAdd(value0, RInt(cashflow))
    IN  [model |-> Combined(s),
         x0 |-> [i \in 1..n |-> p.percent[p.index[i]]],
         cashflow |-> FDiv(RInt(cashflow), value0),
         constraints |-> <<[label |-> "sales", function |-> "sales",
                            bounds |-> FDiv(RInt(max_sales), value0)]>>]
        @@ (IF rho > 0 THEN [rho |-> rho] ELSE EmptyDict)
        @@ (IF \E t \in Range(p.index) : IsFinite(p.lower[t])
            THEN [xlo |-> [i \in 1..n |->
                     Scaled(p.lower[p.index[i]], p.close[p.index[i]], value)]]
            ELSE EmptyDict)
        @@ (IF \E t \in Range(p.index) : IsFinite(p.upper[t])
            THEN [xup |-> [i \in 1..n |->
                     Scaled(p.upper[p.index[i]], p.close[p.index[i]], value)]]
            ELSE EmptyDict)

QueryCashflows == {0, 100, -200}
Rhos == {-1, 0, 1}
QueryConstraints ==
    {Constraint(tk, "holdings", sg, 50, "shares", TRUE) :
        tk \in TickerLists, sg \in ConstraintSigns}

\* a call of _get_portfolio_query under the precondition of retrieve_frontier;
\* the arguments and the dict returned are kept in pop.arg
P_GetPortfolioQuery(cashflow, max_sales, rho) ==
    /\ FrontierPrecondition(Self)
    /\ get_model(Self).exc = "none"
    /\ Sync(Done(Self))
    /\ pop' = POp("_get_portfolio_query", "sync", "ok",
                  Some([cashflow |-> cashflow, max_sales |-> max_sales, rho |-> rho,
                        data |-> query_data(Self, cashflow, max_sales, rho)]))

NextQuery ==
    \/ P_ImportCsv(TRUE)
    \/ P_RetrievePricesCall
    \/ P_RetrievePricesReturn(FALSE)
    \/ P_SetModels([rg \in {"1mo"} |-> 1], EmptyDict)
    \/ \E c \in QueryConstraints : P_ApplyConstraint(c)
    \/ P_RemoveConstraints(<<"A", "B">>)
    \/ \E cashflow \in QueryCashflows, rho \in Rhos : P_GetPortfolioQuery(cashflow, 50, rho)

SpecQuery == Init /\ [][NextQuery]_vars

\* the state is the one a _get_portfolio_query call returned in
Queried == pop.name = "_get_portfolio_query"

\* C36: the query holds 'rho' exactly when rho > 0, 'xlo' exactly when some
\* ticker has a finite lower bound and 'xup' exactly when some ticker has a
\* finite upper bound; xlo and xup hold one entry per ticker, the bound times
\* close over the value after the cashflow, while the cashflow and the sales
\* bound are divided by the current value
C36_QueryContents ==
    Queried =>
        LET a == The(pop.arg)
            d == a.data
            p == The(portfolio)
            n == Len(p.index)
            value0 == get_value(Self)
            value == RAdd(value0, RInt(a.cashflow))
        IN  /\ ("rho" \in DOMAIN d) = (a.rho > 0)
            /\ ("xlo" \in DOMAIN d) = (\E t \in Range(p.index) : p.lower[t] # NegInf)
            /\ ("xup" \in DOMAIN d) = (\E t \in Range(p.index) : p.upper[t] # PosInf)
            /\ "xlo" \in DOMAIN d =>
                  /\ Len(d.xlo) = n
                  /\ \A i \in 1..n :
                        (p.lower[p.index[i]] # NegInf /\ value # RZero) =>
                           RMul(d.xlo[i], value)
                              = RMul(p.lower[p.index[i]], p.close[p.index[i]])
            /\ "xup" \in DOMAIN d =>
                  /\ Len(d.xup) = n
                  /\ \A i \in 1..n :
                        (p.upper[p.index[i]] # PosInf /\ value # RZero) =>
                           RMul(d.xup[i], value)
                              = RMul(p.upper[p.index[i]], p.close[p.index[i]])
            /\ value0 # RZero =>
                  /\ RMul(d.cashflow, value0) = RInt(a.cashflow)
                  /\ RMul(d.constraints[1].bounds, value0) = RInt(a.max_sales)

\* a query with rho = 1 and a cashflow of 100 on a table where only ticker A
\* has an upper bound: rho and xup are sent, xlo is not, and the entry of A is
\* 50 * 2 / 300
C36_Witness ==
    /\ Queried
    /\ The(pop.arg).rho = 1 /\ The(pop.arg).cashflow = 100
    /\ DOMAIN The(pop.arg).data \cap {"rho", "xlo", "xup"} = {"rho", "xup"}
    /\ The(pop.arg).data.xup = <<Rat(1, 3), PosInf>>

(***************************************************************************)
(* The points retrieve_frontier keeps                                      *)
(***************************************************************************)
IsOptimal(pt) == pt.status = "optimal"

\* the step is retrieve_frontier running on from an answer of the solver
FrontierAnswered ==
    /\ pop'.name = "retrieve_frontier" /\ pop'.phase = "resume"
    /\ ~The(pop'.arg).error

C37_Step ==
    FrontierAnswered =>
        LET optimal == SelectSeq(The(pop'.arg).frontier, IsOptimal)
        IN  /\ pop'.outcome = "ok" =>
                  /\ frontier' # Nothing
                  /\ Len(The(frontier')) = Len(optimal)
                  /\ \A i \in 1..Len(optimal) :
                        /\ The(frontier')[i].x = optimal[i].x
                        /\ The(frontier')[i].mu = Given(optimal[i].mu)
            /\ Len(optimal) >= 1 => pop'.outcome = "ok"

\* C37: after a successful retrieve_frontier the rows of the frontier are
\* exactly the points of the response whose status is 'optimal', in the order
\* of the response, each with the mu and x of the solver; the other points
\* are dropped, and no error is raised as long as one optimal point remains
C37_OptimalPointsKept == [][C37_Step]_vars

====
